---- MODULE Spec2Model ----
(***************************************************************************)
(* A model of font_archiver.py: discovery and grouping of font files,      *)
(* normalisation of family names, the per-family archive builder with its  *)
(* retry loop, the thread-pool orchestrator, the size-tiered remote sync   *)
(* and the repository lifecycle of main().                                 *)
(*                                                                         *)
(* Strings are sequences of one-character strings, so that lower(),        *)
(* split(), strip(), endswith() and the regular expressions are computed   *)
(* character by character as the Python code computes them.                *)
(*                                                                         *)
(* Each component has its own specification (SpecNorm, SpecScan,           *)
(* SpecBuild, SpecOrch, SpecSync, Spec); the variables of the components   *)
(* a specification does not run stay at their idle values.                 *)
(***************************************************************************)
EXTENDS Integers, Sequences, FiniteSets, TLC

VARIABLES
    \* the contents of an archive
    kPc, kPaths, kPresent, kIdx, kStaged, kEntries, kResult, kLog,
    \* the exits of a run
    ePc, eTrace, eCause, eTemp,
    \* the local repository: position, files on disk, what was done in order
    gPc, gDisk, gEvents, lfs_initialized, gIgnore, gGiven,
    \* normalize_nerd_font_name applied once and twice to a key
    nKey, nOut, nOut2, nPc,
    \* scan_fonts: the two directory listings, the position in each, the
    \* processed_fonts set, the font_families mapping and the returned mapping
    userDir, sysDir, uIdx, sIdx, processed_fonts, font_families, scanned, sPc,
    \* create_zip_for_family: the files of the output directory, whether an
    \* input font is missing, the locals of the retry loop, the attempts made so
    \* far, what was logged, how often the loop slept, the returned pair and
    \* whether an exception left the function
    bFs, bMissing, bPc, retry_count, success, zip_path, bAttempts, bLog, bSleeps,
    bResult, bRaised,
    \* create_zips: the families, the state and result of each family's future,
    \* the orchestrator's position, the exit_flag, the futures as_completed has
    \* yielded, archive_paths, total_size, what was logged, and what was queued
    \* or running when the orchestrator saw the flag set
    oFamilies, oTask, oFuture, oPc, exit_flag, oYielded, archive_paths, total_size,
    oLog, oSeen, oQueuedThen,
    \* the family name of each task, and the state of the file at each archive
    \* path of the output directory
    oName, oDisk,
    \* push_to_github's pass over the files: their sizes in bytes, how many have
    \* been processed, the branch _process_file took for each, what git add
    \* staged, what the content API uploaded, and the log
    file_list, yIdx, yRoute, yStaged, yUploaded, yLog,
    \* push_to_github: its position, the number of the pass over the files, the
    \* pushes attempted, and for each file processed in this pass whether git
    \* add succeeded and what became of a content-API write
    yPc, yPass, yPushes, yAttempts,
    \* what main told the user after push_to_github
    yReport,
    \* the git commands of the commit, remote and branch steps, in order
    yGit,
    \* staging directories of concurrent runs: the wall clock (in ticks), each
    \* run's position and TEMP_DIR, the directories and files on disk, and the
    \* runs that lost files to another run's rmtree
    tClock, tPc, TEMP_DIR, tDirs, tFiles, tLost,
    \* _sanitize_name: the name given and the name returned
    aName, aSafe, aPc,
    \* main's GitHub phase: position, total_size, the precondition checks that
    \* ran, the state of the remote repository, the calls made on it, the text
    \* typed at the fresh/append prompt, and whether the remote was found
    mPc, mTotal, mChecks, rRepo, rCalls, choice, rFound, rLookup,
    \* for each precondition check that ran: whether its query of the GitHub API
    \* succeeded, whether it displayed a warning, and the answer typed to it
    mGates

normVars == <<nKey, nOut, nOut2, nPc>>
scanVars == <<userDir, sysDir, uIdx, sIdx, processed_fonts, font_families, scanned, sPc>>

buildVars == <<bFs, bMissing, bPc, retry_count, success, zip_path, bAttempts, bLog,
               bSleeps, bResult, bRaised>>

orchVars == <<oFamilies, oTask, oFuture, oPc, exit_flag, oYielded, archive_paths,
              total_size, oLog, oSeen, oQueuedThen, oName, oDisk>>

syncVars == <<file_list, yIdx, yRoute, yStaged, yUploaded, yLog, yPc, yPass, yPushes,
              yAttempts, yReport, yGit>>

mainVars == <<mPc, mTotal, mChecks, rRepo, rCalls, choice, rFound, rLookup, mGates>>

tempVars == <<tClock, tPc, TEMP_DIR, tDirs, tFiles, tLost>>

saniVars == <<aName, aSafe, aPc>>

stageVars == <<gPc, gDisk, gEvents, lfs_initialized, gIgnore, gGiven>>

runVars == <<ePc, eTrace, eCause, eTemp>>

packVars == <<kPc, kPaths, kPresent, kIdx, kStaged, kEntries, kResult, kLog>>

vars == <<normVars, scanVars, buildVars, orchVars, syncVars, mainVars, tempVars, saniVars, stageVars, runVars,
         packVars>>

\* what the actions of one component leave alone
notNorm == <<scanVars, buildVars, orchVars, syncVars, mainVars, tempVars, saniVars,
    stageVars,
    runVars,
    packVars>>
notScan == <<normVars, buildVars, orchVars, syncVars, mainVars, tempVars, saniVars,
    stageVars,
    runVars,
    packVars>>
notBuild == <<normVars, scanVars, orchVars, syncVars, mainVars, tempVars, saniVars,
    stageVars,
    runVars,
    packVars>>
notOrch == <<normVars, scanVars, buildVars, syncVars, mainVars, tempVars, saniVars,
    stageVars,
    runVars,
    packVars>>
notSync == <<normVars, scanVars, buildVars, orchVars, mainVars, tempVars, saniVars,
    stageVars,
    runVars,
    packVars>>
notTemp == <<normVars, scanVars, buildVars, orchVars, syncVars, mainVars, saniVars,
    stageVars,
    runVars,
    packVars>>
notSani == <<normVars, scanVars, buildVars, orchVars, syncVars, mainVars, tempVars,
    stageVars,
    runVars,
    packVars>>
notStage == <<normVars, scanVars, buildVars, orchVars, syncVars, mainVars, tempVars, saniVars,
    runVars,
    packVars>>
notRun == <<normVars, scanVars, buildVars, orchVars, syncVars, mainVars, tempVars, saniVars, stageVars,
    packVars>>
notPack == <<normVars, scanVars, buildVars, orchVars, syncVars, mainVars, tempVars, saniVars, stageVars, runVars>>
notMain == <<normVars, scanVars, buildVars, orchVars, syncVars, tempVars, saniVars,
    stageVars,
    runVars,
    packVars>>

(***************************************************************************)
(* Strings                                                                 *)
(***************************************************************************)
UpperLetters == <<"A","B","C","D","E","F","G","H","I","J","K","L","M",
                  "N","O","P","Q","R","S","T","U","V","W","X","Y","Z">>
LowerLetters == <<"a","b","c","d","e","f","g","h","i","j","k","l","m",
                  "n","o","p","q","r","s","t","u","v","w","x","y","z">>

\* str.lower() on one character
LowerChar(c) ==
    IF \E i \in 1..26 : UpperLetters[i] = c
    THEN LowerLetters[CHOOSE i \in 1..26 : UpperLetters[i] = c]
    ELSE c

\* str.lower()
Lower(s) == [i \in 1..Len(s) |-> LowerChar(s[i])]

\* sub occurs in s starting at index i (1-based)
OccursAt(s, sub, i) ==
    /\ i >= 1
    /\ i + Len(sub) - 1 <= Len(s)
    /\ \A j \in 1..Len(sub) : s[i + j - 1] = sub[j]

\* the "in" operator on strings
Contains(s, sub) == \E i \in 1..(Len(s) + 1) : OccursAt(s, sub, i)

\* str.endswith
EndsWith(s, sub) ==
    /\ Len(sub) <= Len(s)
    /\ OccursAt(s, sub, Len(s) - Len(sub) + 1)

\* index of the first occurrence of sub in s, 0 when there is none (str.find + 1)
FindFirst(s, sub) ==
    IF Contains(s, sub)
    THEN CHOOSE i \in 1..(Len(s) + 1) :
            /\ OccursAt(s, sub, i)
            /\ \A k \in 1..(i - 1) : ~OccursAt(s, sub, k)
    ELSE 0

\* s.split(sep)[0]: the part before the first occurrence of sep, all of s without one
SplitFirst(s, sep) ==
    IF FindFirst(s, sep) = 0 THEN s ELSE SubSeq(s, 1, FindFirst(s, sep) - 1)

IsSpace(c) == c \in {" ", "\t", "\n", "\r"}

\* str.strip(): leading and trailing whitespace removed
Strip(s) ==
    IF \A i \in 1..Len(s) : IsSpace(s[i])
    THEN <<>>
    ELSE LET first == CHOOSE i \in 1..Len(s) :
                         /\ ~IsSpace(s[i])
                         /\ \A k \in 1..(i - 1) : IsSpace(s[k])
             last  == CHOOSE i \in 1..Len(s) :
                         /\ ~IsSpace(s[i])
                         /\ \A k \in (i + 1)..Len(s) : IsSpace(s[k])
         IN  SubSeq(s, first, last)

(***************************************************************************)
(* normalize_nerd_font_name                                                *)
(***************************************************************************)
NerdFont      == <<"N","e","r","d"," ","F","o","n","t">>
NerdFontLower == <<"n","e","r","d"," ","f","o","n","t">>

\* the variant that puts the marker before the base
normalize_marker_first(family_name) ==
    IF Contains(Lower(family_name), NerdFontLower)
       /\ ~EndsWith(Lower(family_name), NerdFontLower)
    THEN NerdFont \o <<" ">> \o Strip(SplitFirst(family_name, NerdFont))
    ELSE family_name

normalize_nerd_font_name(family_name) ==
    IF Contains(Lower(family_name), NerdFontLower)
       /\ ~EndsWith(Lower(family_name), NerdFontLower)
    THEN Strip(SplitFirst(family_name, NerdFont)) \o <<" ">> \o NerdFont
    ELSE family_name

(***************************************************************************)
(* SpecNorm: the normalisation pass run once and then again on its result  *)
(***************************************************************************)
MaxParts == 3

\* the pieces the keys are put together from
KeyParts == {
    NerdFont,
    NerdFontLower,
    <<"N","E","R","D"," ","F","O","N","T">>,
    <<"A","b">>,
    <<" ">>,
    <<"M","o","n","o">> }

RECURSIVE KeysOfParts(_)
KeysOfParts(n) ==
    IF n = 0 THEN { <<>> }
    ELSE KeysOfParts(n - 1)
         \cup { k \o p : k \in KeysOfParts(n - 1), p \in KeyParts }

NormKeys == KeysOfParts(MaxParts)

NormIdle ==
    /\ nKey = <<>>
    /\ nOut = <<>>
    /\ nOut2 = <<>>
    /\ nPc = "idle"

NormInit ==
    /\ nKey \in NormKeys
    /\ nOut = <<>>
    /\ nOut2 = <<>>
    /\ nPc = "key"

NormalizeOnce ==
    /\ nPc = "key"
    /\ nOut' = normalize_nerd_font_name(nKey)
    /\ nPc' = "once"
    /\ UNCHANGED <<nKey, nOut2>>
    /\ UNCHANGED notNorm

NormalizeTwice ==
    /\ nPc = "once"
    /\ nOut2' = normalize_nerd_font_name(nOut)
    /\ nPc' = "twice"
    /\ UNCHANGED <<nKey, nOut>>
    /\ UNCHANGED notNorm

NormNext == NormalizeOnce \/ NormalizeTwice

(***************************************************************************)
(* Discovery: get_font_family, the exclusion test and scan_fonts           *)
(***************************************************************************)
DEFAULT_WINDOWS_FONTS == {
    <<"A","r","i","a","l">>,
    <<"C","a","l","i","b","r","i">>,
    <<"C","a","m","b","r","i","a">>,
    <<"C","a","n","d","a","r","a">>,
    <<"C","o","m","i","c"," ","S","a","n","s"," ","M","S">>,
    <<"C","o","n","s","o","l","a","s">>,
    <<"C","o","n","s","t","a","n","t","i","a">>,
    <<"C","o","r","b","e","l">>,
    <<"C","o","u","r","i","e","r"," ","N","e","w">>,
    <<"E","b","r","i","m","a">>,
    <<"F","r","a","n","k","l","i","n"," ","G","o","t","h","i","c">>,
    <<"G","a","b","r","i","o","l","a">>,
    <<"G","a","d","u","g","i">>,
    <<"G","e","o","r","g","i","a">>,
    <<"I","m","p","a","c","t">>,
    <<"J","a","v","a","n","e","s","e"," ","T","e","x","t">>,
    <<"L","e","e","l","a","w","a","d","e","e"," ","U","I">>,
    <<"L","u","c","i","d","a"," ","C","o","n","s","o","l","e">>,
    <<"L","u","c","i","d","a"," ","S","a","n","s"," ","U","n","i","c","o","d","e">>,
    <<"M","a","l","g","u","n"," ","G","o","t","h","i","c">>,
    <<"M","i","c","r","o","s","o","f","t"," ","S","a","n","s"," ","S","e","r","i","f">>,
    <<"M","i","n","g","L","i","U">>,
    <<"M","S"," ","G","o","t","h","i","c">>,
    <<"M","S"," ","P","G","o","t","h","i","c">>,
    <<"M","S"," ","U","I"," ","G","o","t","h","i","c">>,
    <<"M","V"," ","B","o","l","i">>,
    <<"M","y","a","n","m","a","r"," ","T","e","x","t">>,
    <<"N","i","r","m","a","l","a"," ","U","I">>,
    <<"P","a","l","a","t","i","n","o"," ","L","i","n","o","t","y","p","e">>,
    <<"S","e","g","o","e"," ","M","D","L","2"," ","A","s","s","e","t","s">>,
    <<"S","e","g","o","e"," ","P","r","i","n","t">>,
    <<"S","e","g","o","e"," ","S","c","r","i","p","t">>,
    <<"S","e","g","o","e"," ","U","I">>,
    <<"S","i","m","S","u","n">>,
    <<"S","i","t","k","a">>,
    <<"S","y","l","f","a","e","n">>,
    <<"S","y","m","b","o","l">>,
    <<"T","a","h","o","m","a">>,
    <<"T","i","m","e","s"," ","N","e","w"," ","R","o","m","a","n">>,
    <<"T","r","e","b","u","c","h","e","t"," ","M","S">>,
    <<"V","e","r","d","a","n","a">>,
    <<"W","e","b","d","i","n","g","s">>,
    <<"W","i","n","g","d","i","n","g","s">>,
    <<"Y","u"," ","G","o","t","h","i","c">> }

\* the alternatives of the two style-suffix regular expressions
StyleTokens == {
    <<"B","o","l","d">>,
    <<"I","t","a","l","i","c">>,
    <<"L","i","g","h","t">>,
    <<"R","e","g","u","l","a","r">>,
    <<"M","e","d","i","u","m">>,
    <<"T","h","i","n">>,
    <<"B","l","a","c","k">>,
    <<"O","b","l","i","q","u","e">>,
    <<"C","o","n","d","e","n","s","e","d">>,
    <<"E","x","t","e","n","d","e","d">>,
    <<"N","a","r","r","o","w">>,
    <<"W","i","d","e">>,
    <<"S","e","m","i">>,
    <<"E","x","t","r","a">>,
    <<"U","l","t","r","a">>,
    <<"D","e","m","i">>,
    <<"H","e","a","v","y">> }

\* re.sub(SEP* (Bold|Italic|...)$, '', s, IGNORECASE): the style token the string
\* ends with is cut off, together with the whole run of separator characters
\* before it (the leftmost match); no alternative is a suffix of another one
StripStyleSuffix(s, seps) ==
    IF \E t \in StyleTokens : EndsWith(Lower(s), Lower(t))
    THEN LET t == CHOOSE t \in StyleTokens : EndsWith(Lower(s), Lower(t))
             tok == Len(s) - Len(t) + 1
             from == CHOOSE i \in 1..tok :
                        /\ \A k \in i..(tok - 1) : s[k] \in seps
                        /\ i > 1 => s[i - 1] \notin seps
         IN  SubSeq(s, 1, from - 1)
    ELSE s

_clean_font_family_name(family_name) ==
    StripStyleSuffix(family_name, {" ", "\t", "\n", "\r"})

\* os.path.splitext(name)[0]: the name up to its last dot, a leading dot not counted
SplitExtRoot(name) ==
    IF \E i \in 2..Len(name) : name[i] = "."
    THEN LET dot == CHOOSE i \in 2..Len(name) :
                       /\ name[i] = "."
                       /\ \A k \in (i + 1)..Len(name) : name[k] # "."
         IN  SubSeq(name, 1, dot - 1)
    ELSE name

_clean_font_filename(filename) ==
    StripStyleSuffix(SplitExtRoot(filename), {"-", "_"})

\* font is a file: its name, its name records 16 and 1 (<<>> when the record is
\* missing, empty or not Unicode) and whether fontTools can read it
get_font_family(font) ==
    IF ~font.readable THEN _clean_font_filename(font.file)
    ELSE IF font.name16 # <<>> THEN font.name16
    ELSE IF font.name1 # <<>> THEN _clean_font_family_name(font.name1)
    ELSE _clean_font_filename(font.file)

\* default_font.lower() for every default font
DefaultFontsLower == { Lower(default_font) : default_font \in DEFAULT_WINDOWS_FONTS }

\* the variant that excludes only the names equal to a default font
is_default_windows_font_exact(family_name) ==
    Lower(family_name) \in DefaultFontsLower

is_default_windows_font(family_name) ==
    LET name == Lower(family_name)
    IN  \E default_font \in DefaultFontsLower : Contains(name, default_font)

\* the files that may lie in the user fonts directory
UserFiles == <<
    [file |-> <<"F","o","o","-","B","o","l","d",".","t","t","f">>,
     name16 |-> <<"F","o","o">>, name1 |-> <<>>, readable |-> TRUE],
    [file |-> <<"F","o","o","-","I","t","a","l","i","c",".","t","t","f">>,
     name16 |-> <<"F","o","o">>, name1 |-> <<>>, readable |-> TRUE],
    [file |-> <<"B","a","r",".","t","t","f">>,
     name16 |-> <<>>, name1 |-> <<>>, readable |-> FALSE],
    [file |-> <<"B","o","l","d",".","o","t","f">>,
     name16 |-> <<>>, name1 |-> <<>>, readable |-> FALSE],
    [file |-> <<"a","r","i","a","l","b","d",".","t","t","f">>,
     name16 |-> <<>>, name1 |-> <<"A","r","i","a","l"," ","B","o","l","d">>, readable |-> TRUE],
    [file |-> <<"X",".","o","t","f">>,
     name16 |-> <<"A","b"," ","N","e","r","d"," ","F","o","n","t"," ","M","o","n","o">>, name1 |-> <<>>, readable |-> TRUE],
    [file |-> <<"Z",".","t","t","f">>,
     name16 |-> <<"C","o","u","r","i","e","r"," "," ","N","e","r","d"," ","F","o","n","t"," ","X">>, name1 |-> <<>>, readable |-> TRUE],
    [file |-> <<"W",".","t","t","f">>,
     name16 |-> <<"A","r","i","a","l"," ","N","e","r","d"," ","F","o","n","t"," ","M","o","n","o">>, name1 |-> <<>>, readable |-> TRUE] >>

\* the files that may lie in the system fonts directory
SystemFiles == <<
    [file |-> <<"f","o","o","-","b","o","l","d",".","T","T","F">>,
     name16 |-> <<"F","o","o">>, name1 |-> <<>>, readable |-> TRUE],
    [file |-> <<"b","a","r",".","t","t","f">>,
     name16 |-> <<>>, name1 |-> <<"B","a","r"," ","L","i","g","h","t">>, readable |-> TRUE],
    [file |-> <<"a","r","i","a","l",".","t","t","f">>,
     name16 |-> <<>>, name1 |-> <<"A","r","i","a","l">>, readable |-> TRUE],
    [file |-> <<"Y",".","t","t","f">>,
     name16 |-> <<"A","b"," ","N","e","r","d"," ","F","o","n","t">>, name1 |-> <<>>, readable |-> TRUE],
    [file |-> <<"n","o","t","e","s",".","t","x","t">>,
     name16 |-> <<>>, name1 |-> <<>>, readable |-> FALSE] >>

\* an item is a path: the directory and the file in it
Font(item) == IF item.dir = "user" THEN UserFiles[item.n] ELSE SystemFiles[item.n]

ExtTtf == <<".","t","t","f">>
ExtOtf == <<".","o","t","f">>

\* os.path.basename(font_path).lower() of every file, worked out once
UserIdentity == [i \in 1..Len(UserFiles) |-> Lower(UserFiles[i].file)]
SystemIdentity == [i \in 1..Len(SystemFiles) |-> Lower(SystemFiles[i].file)]

\* os.path.basename(font_path).lower()
IdentityKey(item) ==
    IF item.dir = "user" THEN UserIdentity[item.n] ELSE SystemIdentity[item.n]

\* glob.glob(directory/ext) as Windows matches it, letter case ignored
GlobMatches(item, ext) == EndsWith(IdentityKey(item), ext)

RECURSIVE SelectItems(_, _)
SelectItems(listing, ext) ==
    IF listing = <<>> THEN <<>>
    ELSE (IF GlobMatches(Head(listing), ext) THEN <<Head(listing)>> ELSE <<>>)
         \o SelectItems(Tail(listing), ext)

\* for ext in ['*.ttf', '*.otf']: for font_path in glob.glob(...)
GlobOrder(listing) == SelectItems(listing, ExtTtf) \o SelectItems(listing, ExtOtf)

\* if not add_to_processed and font_name in processed_fonts: continue
SkipsFont(add_to_processed, font_name, processed) ==
    ~add_to_processed /\ font_name \in processed

\* the variant that never records a name
ProcessedAfterNever(add_to_processed, font_name, processed) == processed

\* if add_to_processed: processed_fonts.add(font_name)
ProcessedAfter(add_to_processed, font_name, processed) ==
    IF add_to_processed THEN processed \cup {font_name} ELSE processed

\* the variant that replaces the family's list by the new font alone
FamiliesWithOverwrite(families, family_name, item) ==
    [k \in DOMAIN families \cup {family_name} |->
        IF k = family_name THEN <<item>> ELSE families[k]]

\* if family_name not in font_families: font_families[family_name] = []
\* font_families[family_name].append(font_path)
FamiliesWith(families, family_name, item) ==
    [k \in DOMAIN families \cup {family_name} |->
        IF k = family_name
        THEN (IF k \in DOMAIN families THEN families[k] ELSE <<>>) \o <<item>>
        ELSE families[k]]

\* get_font_family and is_default_windows_font of every file, worked out once
UserFamily == [i \in 1..Len(UserFiles) |-> get_font_family(UserFiles[i])]
SystemFamily == [i \in 1..Len(SystemFiles) |-> get_font_family(SystemFiles[i])]
UserDefault == [i \in 1..Len(UserFiles) |-> is_default_windows_font(UserFamily[i])]
SystemDefault == [i \in 1..Len(SystemFiles) |-> is_default_windows_font(SystemFamily[i])]

\* get_font_family(font_path)
FamilyOf(item) == IF item.dir = "user" THEN UserFamily[item.n] ELSE SystemFamily[item.n]

\* is_default_windows_font(get_font_family(font_path))
IsDefault(item) == IF item.dir = "user" THEN UserDefault[item.n] ELSE SystemDefault[item.n]

add_font_to_families(item, families) ==
    LET family_name == FamilyOf(item)
    IN  IF family_name # <<>> /\ ~IsDefault(item)
        THEN FamiliesWith(families, normalize_nerd_font_name(family_name), item)
        ELSE families

\* font_families = {k: v for k, v in font_families.items() if v}
PruneEmpty(families) ==
    [k \in {x \in DOMAIN families : families[x] # <<>>} |-> families[k]]

MaxDirFiles == 2

\* the listings of a directory: at most MaxDirFiles of its files, no file twice,
\* in the order the operating system happens to enumerate them
RECURSIVE ListingsUpTo(_, _, _)
ListingsUpTo(dir, count, n) ==
    IF n = 0 THEN { <<>> }
    ELSE ListingsUpTo(dir, count, n - 1)
         \cup { Append(l, [dir |-> dir, n |-> i]) :
                    l \in { m \in ListingsUpTo(dir, count, n - 1) : Len(m) = n - 1 },
                    i \in 1..count }

NoRepeat(l) == \A i, j \in 1..Len(l) : i # j => l[i] # l[j]

Listings(dir, count) == { l \in ListingsUpTo(dir, count, MaxDirFiles) : NoRepeat(l) }

EmptyFamilies == [k \in {} |-> <<>>]

ScanIdle ==
    /\ userDir = <<>>
    /\ sysDir = <<>>
    /\ uIdx = 1
    /\ sIdx = 1
    /\ processed_fonts = {}
    /\ font_families = EmptyFamilies
    /\ scanned = EmptyFamilies
    /\ sPc = "idle"

\* a directory that does not exist is scanned like an empty one
ScanInit ==
    /\ userDir \in Listings("user", Len(UserFiles))
    /\ sysDir \in Listings("system", Len(SystemFiles))
    /\ uIdx = 1
    /\ sIdx = 1
    /\ processed_fonts = {}
    /\ font_families = EmptyFamilies
    /\ scanned = EmptyFamilies
    /\ sPc = "scan"

\* one turn of the loop of process_fonts_directory
ProcessFont(item, add_to_processed) ==
    LET font_name == IdentityKey(item)
    IN  IF SkipsFont(add_to_processed, font_name, processed_fonts)
        THEN UNCHANGED <<processed_fonts, font_families>>
        ELSE /\ processed_fonts' = ProcessedAfter(add_to_processed, font_name, processed_fonts)
             /\ font_families' = add_font_to_families(item, font_families)

\* process_fonts_directory(LOCAL_FONTS_DIR, ..., add_to_processed=True)
ScanUserFont ==
    /\ sPc = "scan"
    /\ uIdx <= Len(GlobOrder(userDir))
    /\ ProcessFont(GlobOrder(userDir)[uIdx], TRUE)
    /\ uIdx' = uIdx + 1
    /\ UNCHANGED <<userDir, sysDir, sIdx, scanned, sPc>>
    /\ UNCHANGED notScan

\* process_fonts_directory(WINDOWS_FONTS_DIR, ..., add_to_processed=False)
ScanSystemFont ==
    /\ sPc = "scan"
    /\ uIdx > Len(GlobOrder(userDir))
    /\ sIdx <= Len(GlobOrder(sysDir))
    /\ ProcessFont(GlobOrder(sysDir)[sIdx], FALSE)
    /\ sIdx' = sIdx + 1
    /\ UNCHANGED <<userDir, sysDir, uIdx, scanned, sPc>>
    /\ UNCHANGED notScan

\* the end of scan_fonts: the empty families are removed, the mapping returned
ScanReturn ==
    /\ sPc = "scan"
    /\ uIdx > Len(GlobOrder(userDir))
    /\ sIdx > Len(GlobOrder(sysDir))
    /\ scanned' = PruneEmpty(font_families)
    /\ sPc' = "done"
    /\ UNCHANGED <<userDir, sysDir, uIdx, sIdx, processed_fonts, font_families>>
    /\ UNCHANGED notScan

ScanNext == ScanUserFont \/ ScanSystemFont \/ ScanReturn

(***************************************************************************)
(* Archive builder: create_zip_for_family for one family                   *)
(*                                                                         *)
(* A path of the output directory is the sanitized family name followed by *)
(* the suffixes in stem and by the extension ext.  A file is who wrote it  *)
(* (by: the number of the attempt, 0 for a file that was there before the  *)
(* build), its format, whether it passes its integrity test and its size.  *)
(***************************************************************************)
\* _prepare_zip_path: <output_dir>/<safe_name>.7z
CanonicalPath == [stem |-> <<>>, ext |-> "7z"]

\* os.path.splitext(path)[0] + '.' + ext
WithExt(path, ext) == [path EXCEPT !.ext = ext]

\* <dir>/<name>_retry<retry_count><ext>
_get_retry_path(original_path, count) ==
    [original_path EXCEPT !.stem = Append(@, <<"_retry", count>>)]

\* <dir>/<name>_<int(time.time())><ext>; the attempts of a build fall into
\* one second
StampedPath(path) == [path EXCEPT !.stem = Append(@, <<"_time">>)]

\* os.path.getsize of an archive a strategy has just written
ArchiveSize(fmt) == IF fmt = "7z" THEN 2 ELSE 1

NewFile(attempt, fmt, valid) ==
    [by |-> attempt, fmt |-> fmt, valid |-> valid, size |-> ArchiveSize(fmt)]

\* fs with the file at path removed
Without(fs, path) == [q \in DOMAIN fs \ {path} |-> fs[q]]

\* fs with file written at path
WithFile(fs, path, file) ==
    [q \in DOMAIN fs \cup {path} |-> IF q = path THEN file ELSE fs[q]]

\* _handle_existing_zip: the path to write to and the files after it; a file at
\* the path is removed, or a stamped path is used when it cannot be removed
_handle_existing_zip(fs, path, remove_ok) ==
    IF path \in DOMAIN fs
    THEN IF remove_ok
         THEN [path |-> path, fs |-> Without(fs, path)]
         ELSE [path |-> StampedPath(path), fs |-> fs]
    ELSE [path |-> path, fs |-> fs]

\* How _create_zip_with_7zip can end:
\*   nodir         the output directory could not be made
\*   fonts_missing _verify_font_paths found an input missing
\*   tool_missing  7z is not installed (FileNotFoundError); any other
\*                 exception of the function ends it the same way
\*   exit_nonzero  7z a returned a non-zero code
\*   test_failed   7z a wrote the archive, 7z t did not pass
\*   ok            7z a wrote the archive and 7z t passed
SevenZipOutcomes ==
    {"nodir", "fonts_missing", "tool_missing", "exit_nonzero", "test_failed", "ok"}

\* How _create_zip_with_zipfile can end:
\*   nodir, fonts_missing  as above
\*   open_error    the zip file could not be opened for writing
\*   test_failed   the zip was written, testzip or the re-open did not pass
\*   ok            the zip was written and testzip passed
ZipfileOutcomes == {"nodir", "fonts_missing", "open_error", "test_failed", "ok"}

\* the variant in which _verify_font_paths lets a missing font pass
PossibleOutcomeUnverified(outcome, missing) ==
    outcome # "fonts_missing"

\* the outcomes the state of the input fonts allows: _verify_font_paths
\* returns False when a font is missing, after the directory step
PossibleOutcome(outcome, missing) ==
    IF missing THEN outcome \in {"nodir", "fonts_missing"}
    ELSE outcome # "fonts_missing"

\* _create_zip_with_7zip(font_paths, zip_path): whether it returned True, the
\* path it wrote to and the files after it
_create_zip_with_7zip(fs, path, attempt, outcome, remove_ok) ==
    IF outcome = "nodir"
    THEN [ok |-> FALSE, wrote |-> <<>>, fs |-> fs]
    ELSE LET h == _handle_existing_zip(fs, WithExt(path, "7z"), remove_ok)
         IN  CASE outcome \in {"fonts_missing", "tool_missing", "exit_nonzero"} ->
                    [ok |-> FALSE, wrote |-> <<>>, fs |-> h.fs]
               [] outcome = "test_failed" ->
                    [ok |-> FALSE, wrote |-> <<h.path>>,
                     fs |-> WithFile(h.fs, h.path, NewFile(attempt, "7z", FALSE))]
               [] outcome = "ok" ->
                    [ok |-> TRUE, wrote |-> <<h.path>>,
                     fs |-> WithFile(h.fs, h.path, NewFile(attempt, "7z", TRUE))]

\* _create_zip_with_zipfile(font_paths, zip_path)
_create_zip_with_zipfile(fs, path, attempt, outcome, remove_ok) ==
    IF outcome = "nodir"
    THEN [ok |-> FALSE, wrote |-> <<>>, fs |-> fs]
    ELSE LET h == _handle_existing_zip(fs, path, remove_ok)
         IN  CASE outcome \in {"fonts_missing", "open_error"} ->
                    [ok |-> FALSE, wrote |-> <<>>, fs |-> h.fs]
               [] outcome = "test_failed" ->
                    [ok |-> FALSE, wrote |-> <<h.path>>,
                     fs |-> WithFile(h.fs, h.path, NewFile(attempt, "zip", FALSE))]
               [] outcome = "ok" ->
                    [ok |-> TRUE, wrote |-> <<h.path>>,
                     fs |-> WithFile(h.fs, h.path, NewFile(attempt, "zip", TRUE))]

\* _create_zip_with_strategy(font_paths, zip_path): 7zip first, the zipfile
\* module when 7zip returned False; via is the strategy that returned True
_create_zip_with_strategy(fs, path, attempt, o7, rm7, oz, rmz) ==
    LET seven == _create_zip_with_7zip(fs, WithExt(path, "7z"), attempt, o7, rm7)
    IN  IF seven.ok
        THEN [ok |-> TRUE, via |-> "7z", wrote |-> seven.wrote, fs |-> seven.fs]
        ELSE LET zip == _create_zip_with_zipfile(seven.fs, WithExt(path, "zip"),
                                                 attempt, oz, rmz)
             IN  [ok |-> zip.ok, via |-> IF zip.ok THEN "zip" ELSE "none",
                  wrote |-> zip.wrote, fs |-> zip.fs]

max_retries == 3

\* the variant whose loop takes one turn more
LoopContinuesOnceMore(done, count) ==
    ~done /\ count <= max_retries

\* while not success and retry_count < max_retries
LoopContinues(done, count) ==
    ~done /\ count < max_retries

\* the variant whose try block starts after the output directory is made
TryBlockStepsAfterMakedirs == {"prepare", "attempts", "verify"}

\* the steps of create_zip_for_family inside its try block
TryBlockSteps == {"makedirs", "prepare", "attempts", "verify"}

\* the pair create_zip_for_family returns from its except block
FakeResult == [path |-> CanonicalPath, size |-> 0]

NoResult == [path |-> <<>>, size |-> 0]

\* an exception raised in step: caught and logged by the except block, which
\* returns the fake pair, or out of the function when step is not in the try
BuildError(step) ==
    IF step \in TryBlockSteps
    THEN /\ bLog' = bLog \cup {"Error creating archive"}
         /\ bResult' = FakeResult
         /\ bRaised' = FALSE
         /\ bPc' = "done"
    ELSE /\ bRaised' = TRUE
         /\ bPc' = "done"
         /\ UNCHANGED <<bLog, bResult>>

MaxOldFiles == 1

\* the paths an attempt of this family can aim at
TargetPaths ==
    { WithExt(p, e) : p \in {CanonicalPath} \cup
                             { _get_retry_path(CanonicalPath, n) : n \in 1..(max_retries - 1) },
                      e \in {"7z", "zip"} }

\* a file left in the output directory before the build, possibly empty
OldFiles == { [by |-> 0, fmt |-> "old", valid |-> FALSE, size |-> s] : s \in {0, 1} }

BuildIdle ==
    /\ bFs = <<>>
    /\ bMissing = FALSE
    /\ bPc = "idle"
    /\ retry_count = 0
    /\ success = FALSE
    /\ zip_path = CanonicalPath
    /\ bAttempts = <<>>
    /\ bLog = {}
    /\ bSleeps = 0
    /\ bResult = NoResult
    /\ bRaised = FALSE

BuildInit ==
    /\ \E old \in { s \in SUBSET TargetPaths : Cardinality(s) <= MaxOldFiles } :
           bFs \in [old -> OldFiles]
    /\ bMissing \in BOOLEAN
    /\ bPc = "start"
    /\ retry_count = 0
    /\ success = FALSE
    /\ zip_path = CanonicalPath
    /\ bAttempts = <<>>
    /\ bLog = {}
    /\ bSleeps = 0
    /\ bResult = NoResult
    /\ bRaised = FALSE

\* the build of a family whose output directory holds nothing, or an old file
\* at the family's archive path
BuildInitLive ==
    /\ \E old \in SUBSET {CanonicalPath} : bFs \in [old -> OldFiles]
    /\ bMissing \in BOOLEAN
    /\ bPc = "start"
    /\ retry_count = 0
    /\ success = FALSE
    /\ zip_path = CanonicalPath
    /\ bAttempts = <<>>
    /\ bLog = {}
    /\ bSleeps = 0
    /\ bResult = NoResult
    /\ bRaised = FALSE

\* os.makedirs(output_dir), _prepare_zip_path and the locals of the retry loop
BuildStart ==
    /\ bPc = "start"
    /\ \E step \in {"makedirs", "prepare", "none"} :
           IF step = "none"
           THEN /\ bPc' = "loop"
                /\ UNCHANGED <<bLog, bResult, bRaised>>
           ELSE BuildError(step)
    /\ UNCHANGED <<bFs, bMissing, retry_count, success, zip_path, bAttempts, bSleeps>>
    /\ UNCHANGED notBuild

\* a font file is deleted or put back between two attempts
FontsChange ==
    /\ bPc = "loop"
    /\ LoopContinues(success, retry_count)
    /\ retry_count > 0
    /\ bMissing' = ~bMissing
    /\ UNCHANGED <<bFs, bPc, retry_count, success, zip_path, bAttempts, bLog, bSleeps,
                   bResult, bRaised>>
    /\ UNCHANGED notBuild

\* one turn of the loop of _attempt_zip_creation_with_retry in which
\* _create_zip_with_strategy returns
BuildAttempt ==
    /\ bPc = "loop"
    /\ LoopContinues(success, retry_count)
    /\ \E o7 \in SevenZipOutcomes, oz \in ZipfileOutcomes, rm7 \in BOOLEAN, rmz \in BOOLEAN :
         /\ PossibleOutcome(o7, bMissing)
         /\ PossibleOutcome(oz, bMissing)
         /\ LET target == IF retry_count > 0
                          THEN _get_retry_path(CanonicalPath, retry_count)
                          ELSE zip_path
                r == _create_zip_with_strategy(bFs, target, retry_count + 1, o7, rm7, oz, rmz)
            IN  /\ zip_path' = target
                /\ bFs' = r.fs
                /\ success' = r.ok
                /\ retry_count' = IF r.ok THEN retry_count ELSE retry_count + 1
                /\ bAttempts' = Append(bAttempts,
                                  [target |-> target, ok |-> r.ok, via |-> r.via,
                                   wrote |-> r.wrote, seven |-> o7,
                                   missing |-> bMissing, slept |-> FALSE])
    /\ UNCHANGED <<bMissing, bPc, bLog, bSleeps, bResult, bRaised>>
    /\ UNCHANGED notBuild

\* one turn of the loop in which _create_zip_with_strategy raises: the
\* exception is logged and the loop sleeps before the next turn
BuildAttemptRaises ==
    /\ bPc = "loop"
    /\ LoopContinues(success, retry_count)
    /\ LET target == IF retry_count > 0
                     THEN _get_retry_path(CanonicalPath, retry_count)
                     ELSE zip_path
       IN  /\ zip_path' = target
           /\ bAttempts' = Append(bAttempts,
                             [target |-> target, ok |-> FALSE, via |-> "none",
                              wrote |-> <<>>, seven |-> "raised",
                              missing |-> bMissing, slept |-> TRUE])
    /\ bLog' = bLog \cup {"Attempt failed"}
    /\ bSleeps' = bSleeps + 1
    /\ retry_count' = retry_count + 1
    /\ UNCHANGED <<bFs, bMissing, bPc, success, bResult, bRaised>>
    /\ UNCHANGED notBuild

\* after the loop: the failure is raised and caught, or the archive is looked
\* for at the path the loop returned and its size is read (_get_zip_size
\* returns 0 when the size cannot be read, and logs it)
BuildFinish ==
    /\ bPc = "loop"
    /\ ~LoopContinues(success, retry_count)
    /\ IF ~success
       THEN BuildError("attempts")
       ELSE IF zip_path \notin DOMAIN bFs
       THEN BuildError("verify")
       ELSE \E size_ok \in BOOLEAN :
               /\ bResult' = [path |-> zip_path,
                              size |-> IF size_ok THEN bFs[zip_path].size ELSE 0]
               /\ bLog' = IF size_ok THEN bLog ELSE bLog \cup {"Error getting size"}
               /\ bRaised' = FALSE
               /\ bPc' = "done"
    /\ UNCHANGED <<bFs, bMissing, retry_count, success, zip_path, bAttempts, bSleeps>>
    /\ UNCHANGED notBuild

BuildNext ==
    \/ BuildStart
    \/ FontsChange
    \/ BuildAttempt
    \/ BuildAttemptRaises
    \/ BuildFinish

(***************************************************************************)
(* Parallel orchestrator: create_zips and the signal handler               *)
(*                                                                         *)
(* A family's task is unsubmitted, queued (submitted, no worker thread has *)
(* taken it), running or finished.  The ThreadPoolExecutor is the standard *)
(* library's: a free worker thread takes a queued task, and leaving the    *)
(* with block calls shutdown(wait=True), which joins the worker threads    *)
(* after they have run every task submitted.                               *)
(***************************************************************************)
MaxFamilies == 3
MaxWorkers == 2

\* family names, two of them different only in a character that
\* _sanitize_name replaces
FamilyNames ==
    << <<"F","o","o">>, <<"B","a","r">>, <<"A"," ","B">>, <<"A","_","B">> >>

Digits == {"0","1","2","3","4","5","6","7","8","9"}

\* characters outside ASCII, each written as a token: the letter e with an
\* acute accent (U+00E9) and the Arabic-Indic digit three (U+0663), which
\* str.isalnum() accepts, and the em dash (U+2014), which it does not
NonAsciiWord == {"e-acute", "arabic-3"}
NonAsciiOther == {"em-dash"}

\* \w of a str pattern: the re module matches it against Unicode word
\* characters, the alphanumerics of every script and the underscore
WordChar(c) ==
    \/ \E i \in 1..26 : c = UpperLetters[i] \/ c = LowerLetters[i]
    \/ c \in Digits
    \/ c = "_"
    \/ c \in NonAsciiWord

\* the characters re.sub(r'[^\w\-.]', '_', family_name) keeps
KeptInName(c) ==
    \/ WordChar(c)
    \/ c \in {"-", "."}

\* re.sub(r'[^\w\-.]', '_', family_name)
_sanitize_name(family_name) ==
    [i \in 1..Len(family_name) |-> IF KeptInName(family_name[i])
                                   THEN family_name[i] ELSE "_"]

\* os.path.join(output_dir, f"{safe_name}.7z"), the path of a family's archive
ArchivePath(f) == _sanitize_name(FamilyNames[oName[f]])

\* the variant in which a removed tree leaves truncated files behind
AfterRmtreeTruncated(file, open_kept) ==
    IF file = "absent" THEN "absent" ELSE "partial"

\* shutil.rmtree(TEMP_DIR, ignore_errors=True) on one file of the output
\* directory: a file a build has open may be kept, as on Windows
AfterRmtree(file, open_kept) ==
    IF file = "partial" /\ open_kept THEN "partial" ELSE "absent"

\* delete_temp_directory: asked and answered y, or not asked
delete_temp_directory(disk, deletes, open_kept) ==
    IF deletes THEN [p \in DOMAIN disk |-> AfterRmtree(disk[p], open_kept)]
    ELSE disk

NoFuture == [kind |-> "pending", size |-> 0]

\* what a finished future holds: the pair create_zip_for_family returned (a
\* built archive, or size 0 after a failed build), or an exception
FutureOutcomes ==
    { [kind |-> "pair", size |-> 1], [kind |-> "pair", size |-> 0],
      [kind |-> "exception", size |-> 0] }

Unsubmitted == { f \in oFamilies : oTask[f] = "unsubmitted" }
Queued == { f \in oFamilies : oTask[f] = "queued" }
Running == { f \in oFamilies : oTask[f] = "running" }
Finished == { f \in oFamilies : oTask[f] = "finished" }

OrchIdle ==
    /\ oFamilies = {}
    /\ oTask = <<>>
    /\ oFuture = <<>>
    /\ oPc = "idle"
    /\ exit_flag = FALSE
    /\ oYielded = {}
    /\ archive_paths = <<>>
    /\ total_size = 0
    /\ oLog = {}
    /\ oSeen = FALSE
    /\ oQueuedThen = {}
    /\ oName = <<>>
    /\ oDisk = <<>>

OrchInit ==
    /\ \E n \in 1..MaxFamilies : oFamilies = 1..n
    /\ oName \in { nm \in [oFamilies -> 1..Len(FamilyNames)] :
                       \A f, g \in oFamilies : f < g => nm[f] < nm[g] }
    /\ oDisk = [p \in { _sanitize_name(FamilyNames[oName[f]]) : f \in oFamilies }
                   |-> "absent"]
    /\ oTask = [f \in oFamilies |-> "unsubmitted"]
    /\ oFuture = [f \in oFamilies |-> NoFuture]
    /\ oPc = "submit"
    /\ exit_flag = FALSE
    /\ oYielded = {}
    /\ archive_paths = <<>>
    /\ total_size = 0
    /\ oLog = {}
    /\ oSeen = FALSE
    /\ oQueuedThen = {}

\* signal_handler, which runs in the main thread between two steps of
\* create_zips: the first Ctrl+C sets exit_flag and asks whether to delete the
\* temporary directory, which holds the output directory; a second one
\* deletes it unasked and raises SystemExit at the orchestrator's position
\* inside the with block
SignalHandler ==
    /\ oPc \in {"submit", "collect"}
    /\ \E answer_y \in BOOLEAN, open_kept \in BOOLEAN :
          IF ~exit_flag
          THEN /\ exit_flag' = TRUE
               /\ oDisk' = delete_temp_directory(oDisk, answer_y, open_kept)
               /\ UNCHANGED oPc
          ELSE /\ oPc' = "forced"
               /\ oDisk' = delete_temp_directory(oDisk, TRUE, open_kept)
               /\ UNCHANGED exit_flag
    /\ UNCHANGED <<oFamilies, oTask, oFuture, oYielded, archive_paths, total_size,
                   oLog, oSeen, oQueuedThen, oName>>
    /\ UNCHANGED notOrch

\* executor.submit(create_zip_for_family, family, paths, output_dir), in the
\* order of families_list
SubmitTask ==
    /\ oPc = "submit"
    /\ Unsubmitted # {}
    /\ LET f == CHOOSE g \in Unsubmitted : \A h \in Unsubmitted : g <= h
       IN  oTask' = [oTask EXCEPT ![f] = "queued"]
    /\ UNCHANGED <<oFamilies, oFuture, oPc, exit_flag, oYielded, archive_paths,
                   total_size, oLog, oSeen, oQueuedThen, oName, oDisk>>
    /\ UNCHANGED notOrch

\* the for loop over families_list is over: as_completed is entered
StartCollecting ==
    /\ oPc = "submit"
    /\ Unsubmitted = {}
    /\ oPc' = "collect"
    /\ UNCHANGED <<oFamilies, oTask, oFuture, exit_flag, oYielded, archive_paths,
                   total_size, oLog, oSeen, oQueuedThen, oName, oDisk>>
    /\ UNCHANGED notOrch

\* a free worker thread of the pool takes the oldest queued task, and the
\* build starts to write its archive
WorkerStart ==
    /\ Queued # {}
    /\ Cardinality(Running) < MaxWorkers
    /\ LET f == CHOOSE g \in Queued : \A h \in Queued : g <= h
       IN  /\ oTask' = [oTask EXCEPT ![f] = "running"]
           /\ oDisk' = [oDisk EXCEPT ![ArchivePath(f)] = "partial"]
    /\ UNCHANGED <<oFamilies, oFuture, oPc, exit_flag, oYielded, archive_paths,
                   total_size, oLog, oSeen, oQueuedThen, oName>>
    /\ UNCHANGED notOrch

\* the variant in which the task adds its own size to the total
WorkerFinishAdds(f) ==
    /\ oTask[f] = "running"
    /\ \E outcome \in FutureOutcomes, left \in {"absent", "partial"} :
           /\ oFuture' = [oFuture EXCEPT ![f] = outcome]
           /\ oDisk' = [oDisk EXCEPT ![ArchivePath(f)] =
                            IF outcome.size > 0 THEN "complete" ELSE left]
           /\ total_size' = total_size + outcome.size
    /\ oTask' = [oTask EXCEPT ![f] = "finished"]
    /\ UNCHANGED <<oFamilies, oPc, exit_flag, oYielded, archive_paths,
                   oLog, oSeen, oQueuedThen, oName>>
    /\ UNCHANGED notOrch

\* a running create_zip_for_family ends; the worker never reads exit_flag.
\* A build that reports a size has written and verified its archive; one that
\* failed leaves nothing or a file it could not finish
WorkerFinish(f) ==
    /\ oTask[f] = "running"
    /\ \E outcome \in FutureOutcomes, left \in {"absent", "partial"} :
           /\ oFuture' = [oFuture EXCEPT ![f] = outcome]
           /\ oDisk' = [oDisk EXCEPT ![ArchivePath(f)] =
                            IF outcome.size > 0 THEN "complete" ELSE left]
    /\ oTask' = [oTask EXCEPT ![f] = "finished"]
    /\ UNCHANGED <<oFamilies, oPc, exit_flag, oYielded, archive_paths, total_size,
                   oLog, oSeen, oQueuedThen, oName>>
    /\ UNCHANGED notOrch

\* if exit_flag: return archive_paths, total_size
FlagEndsLoop(flag) == flag

\* the variant in which a task's exception ends the loop
AfterTaskErrorLeave == "exiting"

\* except Exception as e: logger.error(...), and the loop goes on
AfterTaskError == "collect"

\* the variant that leaves the total alone
AddArchiveSizeNever(total, archive_size) == total

\* total_size += archive_size
AddArchiveSize(total, archive_size) == total + archive_size

\* one turn of the loop over as_completed: the result of a finished future is
\* appended and added up and the flag is tested; future.result() raising is
\* logged and the loop goes on without testing the flag
CollectResult(f) ==
    /\ oPc = "collect"
    /\ oTask[f] = "finished"
    /\ f \notin oYielded
    /\ oYielded' = oYielded \cup {f}
    /\ IF oFuture[f].kind = "pair"
       THEN /\ archive_paths' = Append(archive_paths, f)
            /\ total_size' = AddArchiveSize(total_size, oFuture[f].size)
            /\ oLog' = oLog
            /\ IF FlagEndsLoop(exit_flag)
               THEN /\ oPc' = "exiting"
                    /\ oSeen' = TRUE
                    /\ oQueuedThen' = Queued
               ELSE UNCHANGED <<oPc, oSeen, oQueuedThen>>
       ELSE /\ oLog' = oLog \cup {<<"Error creating archive", f>>}
            /\ oPc' = AfterTaskError
            /\ UNCHANGED <<archive_paths, total_size, oSeen, oQueuedThen>>
    /\ UNCHANGED <<oFamilies, oTask, oFuture, exit_flag, oName, oDisk>>
    /\ UNCHANGED notOrch

\* the with block is left, by the return in the loop or after the loop:
\* executor.__exit__ waits until every submitted task has run, and
\* create_zips returns
OrchReturn ==
    /\ \/ oPc = "exiting"
       \/ oPc = "collect" /\ oYielded = oFamilies
    /\ \A f \in oFamilies : oTask[f] = "finished"
    /\ oPc' = "returned"
    /\ UNCHANGED <<oFamilies, oTask, oFuture, exit_flag, oYielded, archive_paths,
                   total_size, oLog, oSeen, oQueuedThen, oName, oDisk>>
    /\ UNCHANGED notOrch

\* SystemExit leaves the with block: executor.__exit__ waits for the tasks
\* submitted so far, and the process exits with status 1
ForcedExit ==
    /\ oPc = "forced"
    /\ Queued = {}
    /\ Running = {}
    /\ oPc' = "exit1"
    /\ UNCHANGED <<oFamilies, oTask, oFuture, exit_flag, oYielded, archive_paths,
                   total_size, oLog, oSeen, oQueuedThen, oName, oDisk>>
    /\ UNCHANGED notOrch

OrchNext ==
    \/ SignalHandler
    \/ SubmitTask
    \/ StartCollecting
    \/ WorkerStart
    \/ \E f \in oFamilies : WorkerFinish(f)
    \/ \E f \in oFamilies : CollectResult(f)
    \/ OrchReturn
    \/ ForcedExit

(***************************************************************************)
(* Remote sync: _process_directory and _process_file                       *)
(***************************************************************************)
MaxSyncFiles == 2

\* 70 * 1024 * 1024
LfsThreshold == 70 * 1024 * 1024

\* the variant that counts a file of exactly the threshold as too large
_is_file_too_large_inclusive(size) == size >= LfsThreshold

\* os.path.getsize(file_path) > 70 * 1024 * 1024
_is_file_too_large(size) == size > LfsThreshold

\* sizes around the threshold, and a small file
FileSizes == {1, LfsThreshold - 1, LfsThreshold, LfsThreshold + 1}

SyncIdle ==
    /\ file_list = <<>>
    /\ yIdx = 0
    /\ yRoute = <<>>
    /\ yStaged = {}
    /\ yUploaded = {}
    /\ yLog = <<>>
    /\ yPc = "idle"
    /\ yPass = 0
    /\ yPushes = <<>>
    /\ yAttempts = <<>>
    /\ yReport = "none"
    /\ yGit = <<>>

SyncInit ==
    /\ \E n \in 0..MaxSyncFiles : file_list \in [1..n -> FileSizes]
    /\ yIdx = 0
    /\ yRoute = <<>>
    /\ yStaged = {}
    /\ yUploaded = {}
    /\ yLog = <<>>
    /\ yPc = "connect"
    /\ yPass = 0
    /\ yPushes = <<>>
    /\ yAttempts = <<>>
    /\ yReport = "none"
    /\ yGit = <<>>

\* a pass over the files begins: _process_repository_files
StartPass ==
    /\ yPc' = "files"
    /\ yPass' = yPass + 1
    /\ yIdx' = 0
    /\ yRoute' = <<>>
    /\ yAttempts' = <<>>

\* _connect_to_github: a GithubException or the ValueError of a missing user
\* name is logged and push_to_github returns; otherwise the first pass begins
ConnectToGithub ==
    /\ yPc = "connect"
    /\ \E outcome \in {"ok", "GithubException", "ValueError"} :
          IF outcome = "ok"
          THEN /\ StartPass
               /\ yLog' = yLog
          ELSE /\ yPc' = "failed"
               /\ yLog' = Append(yLog, <<outcome, 0>>)
               /\ UNCHANGED <<yPass, yIdx, yRoute, yAttempts>>
    /\ UNCHANGED <<yGit, file_list, yStaged, yUploaded, yPushes, yReport>>
    /\ UNCHANGED notSync

\* the variant in which a pass ends at the first file that failed
PassOverAtFailure ==
    \/ yIdx = Len(file_list)
    \/ \E i \in 1..Len(yAttempts) : ~yAttempts[i].git_add

\* for i, file_path in enumerate(file_list): the loop has no more files
PassOver == yIdx = Len(file_list)

\* the variant that never falls back
UploadsAfterNever(git_add_ok) == FALSE

\* except subprocess.CalledProcessError: ... _upload_file_to_github(...)
UploadsAfter(git_add_ok) == ~git_add_ok

\* _process_file on the next file of file_list: the size decides the branch,
\* both branches run git add, and a failed git add falls back to
\* _upload_file_to_github, which reports its own failure in the log
_process_file ==
    /\ yPc = "files"
    /\ ~PassOver
    /\ yIdx < Len(file_list)
    /\ \E git_add_ok \in BOOLEAN, upload_ok \in BOOLEAN :
       LET i == yIdx + 1
           large == _is_file_too_large(file_list[i])
           uploads == UploadsAfter(git_add_ok)
       IN  /\ yIdx' = i
           /\ yRoute' = Append(yRoute, IF large THEN "large" ELSE "small")
           /\ yStaged' = IF git_add_ok THEN yStaged \cup {i} ELSE yStaged
           /\ yUploaded' = IF uploads /\ upload_ok THEN yUploaded \cup {i}
                           ELSE yUploaded
           /\ yAttempts' = Append(yAttempts,
                              [git_add |-> git_add_ok,
                               api |-> IF ~uploads THEN "none"
                                       ELSE IF upload_ok THEN "ok" ELSE "failed"])
           /\ yLog' = yLog
                  \o (IF large THEN << <<"larger than 70MB, using Git LFS", i>> >>
                      ELSE <<>>)
                  \o (IF git_add_ok
                      THEN << <<IF large THEN "Added large file to Git"
                                ELSE "Added file to Git", i>> >>
                      ELSE << <<IF large THEN "Error adding large file to Git"
                                ELSE "Error adding file to Git", i>>,
                              <<IF large
                                THEN "Falling back to direct API upload, may fail"
                                ELSE "Falling back to direct API upload", i>> >>)
                  \o (IF uploads /\ ~upload_ok
                      THEN << <<"Error processing file", i>> >>
                      ELSE <<>>)
    /\ UNCHANGED <<yGit, file_list, yPc, yPass, yPushes, yReport>>
    /\ UNCHANGED notSync

\* the loop of _process_directory is over: after the first pass
\* push_to_github goes on to the git steps, after the fallback pass it logs
\* "Pushed ... using API" and returns
PassEnds ==
    /\ yPc = "files"
    /\ PassOver
    /\ IF yPass = 1
       THEN /\ yPc' = "git"
            /\ yLog' = yLog
       ELSE /\ yPc' = "done"
            /\ yLog' = Append(yLog, <<"Pushed using API", 0>>)
    /\ UNCHANGED <<yGit, file_list, yIdx, yRoute, yStaged, yUploaded, yPass, yPushes,
                   yAttempts, yReport>>
    /\ UNCHANGED notSync

\* a git command and whether it passed
Git(cmd, ok) == [cmd |-> cmd, ok |-> ok]

\* the variant without the fallback commit: a failed commit is raised
_commit_changes_no_fallback(status, commit_ok, empty_ok) ==
    CASE status = "error" -> [events |-> <<Git("status", FALSE)>>, raised |-> TRUE]
      [] status = "clean" -> [events |-> <<Git("status", TRUE)>>, raised |-> FALSE]
      [] OTHER ->
           [events |-> <<Git("status", TRUE), Git("commit", commit_ok)>>,
            raised |-> ~commit_ok]

\* _commit_changes: git status --porcelain (check=True); nothing to commit
\* returns False; git commit, and when it fails git commit --allow-empty
\* (check=True) outside any try
_commit_changes(status, commit_ok, empty_ok) ==
    CASE status = "error" -> [events |-> <<Git("status", FALSE)>>, raised |-> TRUE]
      [] status = "clean" -> [events |-> <<Git("status", TRUE)>>, raised |-> FALSE]
      [] OTHER ->
           IF commit_ok
           THEN [events |-> <<Git("status", TRUE), Git("commit", TRUE)>>,
                 raised |-> FALSE]
           ELSE [events |-> <<Git("status", TRUE), Git("commit", FALSE),
                              Git("commit --allow-empty", empty_ok)>>,
                 raised |-> ~empty_ok]

\* _setup_git_remote and _get_or_create_branch after a commit step that did
\* not raise: git remote add (check=True), git branch --show-current
\* (check=True), and the RuntimeError when no branch can be made
RemoteAndBranch(remote_ok, branch) ==
    IF ~remote_ok
    THEN [events |-> <<Git("remote add", FALSE)>>, end |-> "CalledProcessError"]
    ELSE CASE branch = "ok" ->
                [events |-> <<Git("remote add", TRUE), Git("branch", TRUE)>>,
                 end |-> "ok"]
           [] branch = "CalledProcessError" ->
                [events |-> <<Git("remote add", TRUE), Git("branch", FALSE)>>,
                 end |-> "CalledProcessError"]
           [] OTHER ->
                [events |-> <<Git("remote add", TRUE), Git("branch", FALSE)>>,
                 end |-> "RuntimeError"]

\* the git steps of push_to_github between the first pass and the push: what
\* they ran and how they ended
GitStepsRun(status, commit_ok, empty_ok, remote_ok, branch) ==
    LET c == _commit_changes(status, commit_ok, empty_ok)
    IN  IF c.raised
        THEN [events |-> c.events, end |-> "CalledProcessError"]
        ELSE LET r == RemoteAndBranch(remote_ok, branch)
             IN  [events |-> c.events \o r.events, end |-> r.end]

\* _configure_git_user, _commit_changes, _setup_git_remote and
\* _get_or_create_branch: a CalledProcessError starts the fallback pass, the
\* RuntimeError of _get_or_create_branch ends the process
GitSteps ==
    /\ yPc = "git"
    /\ \E status \in {"error", "clean", "dirty"}, commit_ok \in BOOLEAN,
          empty_ok \in BOOLEAN, remote_ok \in BOOLEAN,
          branch \in {"ok", "CalledProcessError", "RuntimeError"} :
          LET run == GitStepsRun(status, commit_ok, empty_ok, remote_ok, branch)
          IN  /\ yGit' = run.events
              /\ CASE run.end = "ok" ->
                        /\ yPc' = "push"
                        /\ yLog' = yLog
                        /\ UNCHANGED <<yPass, yIdx, yRoute, yAttempts>>
                   [] run.end = "CalledProcessError" ->
                        /\ StartPass
                        /\ yLog' = yLog \o << <<"Git command failed", 0>>,
                                              <<"Falling back to direct API upload for remaining files", 0>> >>
                   [] run.end = "RuntimeError" ->
                        /\ yPc' = "exit1"
                        /\ yLog' = Append(yLog, <<"Error in push_to_github", 0>>)
                        /\ UNCHANGED <<yPass, yIdx, yRoute, yAttempts>>
    /\ UNCHANGED <<file_list, yStaged, yUploaded, yPushes, yReport>>
    /\ UNCHANGED notSync

\* the variant that forces the push whatever the normal push did
AfterNormalPushForce(ok) == "force"

\* _push_to_github_with_lfs: return True after the normal push, or go on to
\* the except branch
AfterNormalPush(ok) == IF ok THEN "done" ELSE "force"

\* git push -u origin <branch>
NormalPush ==
    /\ yPc = "push"
    /\ \E ok \in BOOLEAN :
          /\ yPushes' = Append(yPushes, [kind |-> "normal", ok |-> ok])
          /\ yPc' = AfterNormalPush(ok)
          /\ yLog' = IF ok THEN yLog ELSE Append(yLog, <<"Git push failed", 0>>)
    /\ UNCHANGED <<yGit, file_list, yIdx, yRoute, yStaged, yUploaded, yPass, yAttempts, yReport>>
    /\ UNCHANGED notSync

\* git push -u -f origin <branch>; when it fails too _push_to_github_with_lfs
\* returns False and push_to_github starts the fallback pass
ForcePush ==
    /\ yPc = "force"
    /\ \E ok \in BOOLEAN :
          /\ yPushes' = Append(yPushes, [kind |-> "force", ok |-> ok])
          /\ IF ok
             THEN /\ yPc' = "done"
                  /\ yLog' = yLog
                  /\ UNCHANGED <<yPass, yIdx, yRoute, yAttempts>>
             ELSE /\ StartPass
                  /\ yLog' = yLog \o << <<"Git force push failed", 0>>,
                                        <<"Falling back to direct API upload", 0>> >>
    /\ UNCHANGED <<yGit, file_list, yStaged, yUploaded, yReport>>
    /\ UNCHANGED notSync

\* main after push_to_github has returned, in whatever way: "Font archiving
\* process completed successfully" is logged and printed with the repository
\* URL; the statement of what remains locally is in main's except branch,
\* which nothing push_to_github lets out reaches
ReportAfterPush ==
    /\ yPc \in {"done", "failed"}
    /\ yReport = "none"
    /\ yReport' = "success"
    /\ UNCHANGED <<yGit, file_list, yIdx, yRoute, yStaged, yUploaded, yLog, yPc, yPass,
                   yPushes, yAttempts>>
    /\ UNCHANGED notSync

SyncNext ==
    \/ ConnectToGithub
    \/ _process_file
    \/ PassEnds
    \/ GitSteps
    \/ NormalPush
    \/ ForcePush
    \/ ReportAfterPush

(***************************************************************************)
(* Repository lifecycle: main's GitHub phase                               *)
(***************************************************************************)
\* what can be typed at a prompt
Typed ==
    { <<"1">>, <<"2">>, <<" ", "2", " ">>, <<"a","p","p","e","n","d">>,
      <<"A","P","P","E","N","D">>, <<"y">>, <<"Y">>, <<"n">>, <<>> }

NothingTyped == <<"-">>

\* user.plan.name
PlanNames == { <<"f","r","e","e">>, <<"F","r","e","e">>, <<"p","r","o">> }

\* if size_mb > 1000, with size_mb = total_size / 1024 / 1024
LargeUpload(total) == total > 1000 * 1024 * 1024

TotalSizes == {0, 1000 * 1024 * 1024, 1000 * 1024 * 1024 + 1}

\* the variant that takes any answer for a yes
ConfirmsAnything(answer) == TRUE

\* _prompt_user_for_confirmation: input().lower() != 'y' declines
Confirms(answer) == Lower(answer) = <<"y">>

\* the variant that takes only the digit
AppendChosenDigitOnly(typed) == Strip(typed) = <<"2">>

\* choice = input(...).strip(); choice == "2" or choice.lower() == "append"
AppendChosen(typed) ==
    \/ Strip(typed) = <<"2">>
    \/ Lower(Strip(typed)) = <<"a","p","p","e","n","d">>

MainIdle ==
    /\ mPc = "idle"
    /\ mTotal = 0
    /\ mChecks = <<>>
    /\ rRepo = "Absent"
    /\ rCalls = <<>>
    /\ choice = NothingTyped
    /\ rFound = FALSE
    /\ rLookup = "none"
    /\ mGates = <<>>

\* main has the token and is about to run the checks
MainInit ==
    /\ mPc = "lfs"
    /\ mTotal \in TotalSizes
    /\ mChecks = <<>>
    /\ rRepo \in {"Absent", "Existing"}
    /\ rCalls = <<>>
    /\ choice = NothingTyped
    /\ rFound = FALSE
    /\ rLookup = "none"
    /\ mGates = <<>>

\* what a check did: no warning and no answer unless its query succeeded and
\* its condition held
GateRecord(query_ok, condition, answer) ==
    [query_ok |-> query_ok,
     warned |-> query_ok /\ condition,
     answer |-> IF query_ok /\ condition THEN answer ELSE NothingTyped]

\* check_github_lfs_storage, and main's exit when it returns False
CheckLfsStorage ==
    /\ mPc = "lfs"
    /\ \E plan_ok \in BOOLEAN, plan \in PlanNames, answer \in Typed :
          LET ok == /\ plan_ok
                    /\ Lower(plan) = <<"f","r","e","e">> => Confirms(answer)
          IN  /\ mPc' = IF ok THEN "data" ELSE "exit1"
              /\ mGates' = Append(mGates,
                     GateRecord(plan_ok, Lower(plan) = <<"f","r","e","e">>, answer))
    /\ mChecks' = Append(mChecks, "lfs")
    /\ UNCHANGED <<mTotal, rRepo, rCalls, choice, rFound, rLookup>>
    /\ UNCHANGED notMain

\* check_github_data_limits, and main's exit when it returns False
CheckDataLimits ==
    /\ mPc = "data"
    /\ \E rate_ok \in BOOLEAN, answer \in Typed :
          LET ok == /\ rate_ok
                    /\ LargeUpload(mTotal) => Confirms(answer)
          IN  /\ mPc' = IF ok THEN "ensure" ELSE "exit1"
              /\ mGates' = Append(mGates,
                     GateRecord(rate_ok, LargeUpload(mTotal), answer))
    /\ mChecks' = Append(mChecks, "data")
    /\ UNCHANGED <<mTotal, rRepo, rCalls, choice, rFound, rLookup>>
    /\ UNCHANGED notMain

\* create_github_repo when user.get_repo fails with something other than 404
EnsureRepoLookupFails ==
    /\ mPc = "ensure"
    /\ rCalls' = Append(rCalls, "get_repo")
    /\ rLookup' = "error"
    /\ mPc' = "exit1"
    /\ UNCHANGED <<mTotal, mChecks, rRepo, choice, rFound, mGates>>
    /\ UNCHANGED notMain

\* create_github_repo when the repository does not exist: _create_new_repo
EnsureRepoAbsent ==
    /\ mPc = "ensure"
    /\ rRepo = "Absent"
    /\ \E create_ok \in BOOLEAN :
          /\ rRepo' = IF create_ok THEN "Created" ELSE "Absent"
          /\ mPc' = IF create_ok THEN "push" ELSE "exit1"
    /\ rCalls' = rCalls \o <<"get_repo", "create">>
    /\ rLookup' = "absent"
    /\ UNCHANGED <<mTotal, mChecks, choice, rFound, mGates>>
    /\ UNCHANGED notMain

\* the variant that creates the repository whether or not the delete succeeded
ReplaceCallsCreateAnyway(delete_ok) ==
    <<"get_repo", "delete", "sleep", "create">>

\* the calls of the replace path: repo.delete() and time.sleep(2) in
\* _handle_existing_repo, then user.create_repo in _create_new_repo; a failed
\* delete returns (False, False) and create_github_repo exits before creating
ReplaceCalls(delete_ok) ==
    IF delete_ok THEN <<"get_repo", "delete", "sleep", "create">>
    ELSE <<"get_repo", "delete">>

\* create_github_repo when the repository exists: _handle_existing_repo asks,
\* append returns at once, anything else deletes and then creates
EnsureRepoExisting ==
    /\ mPc = "ensure"
    /\ rRepo = "Existing"
    /\ rFound' = TRUE
    /\ rLookup' = "found"
    /\ \E typed \in Typed, delete_ok \in BOOLEAN, create_ok \in BOOLEAN :
          /\ choice' = typed
          /\ IF AppendChosen(typed)
             THEN /\ rRepo' = "AppendedTo"
                  /\ rCalls' = Append(rCalls, "get_repo")
                  /\ mPc' = "push"
             ELSE IF ~delete_ok
             THEN /\ rRepo' = "Existing"
                  /\ rCalls' = rCalls \o ReplaceCalls(delete_ok)
                  /\ mPc' = "exit1"
             ELSE /\ rRepo' = IF create_ok THEN "Replaced" ELSE "Absent"
                  /\ rCalls' = rCalls \o ReplaceCalls(delete_ok)
                  /\ mPc' = IF create_ok THEN "push" ELSE "exit1"
    /\ UNCHANGED <<mTotal, mChecks, mGates>>
    /\ UNCHANGED notMain

\* push_to_github returns, or exits the process on an unexpected error
PushToGithub ==
    /\ mPc = "push"
    /\ \E ok \in BOOLEAN : mPc' = IF ok THEN "done" ELSE "exit1"
    /\ UNCHANGED <<mTotal, mChecks, rRepo, rCalls, choice, rFound, rLookup, mGates>>
    /\ UNCHANGED notMain

MainNext ==
    \/ CheckLfsStorage
    \/ CheckDataLimits
    \/ EnsureRepoLookupFails
    \/ EnsureRepoAbsent
    \/ EnsureRepoExisting
    \/ PushToGithub

(***************************************************************************)
(* The staging directory of a run (get_temp_dir, delete_temp_directory)    *)
(***************************************************************************)
MaxRuns == 2
MaxClock == 3
TicksPerSecond == 2

Runs == 1..MaxRuns

\* datetime.datetime.now().strftime("%Y%m%d_%H%M%S"): the time of day cut to
\* the whole second
Timestamp(now) == now \div TicksPerSecond

\* os.path.join(base_temp_dir, f"run_{timestamp}")
RunDir(now) == <<"run", Timestamp(now)>>

TempIdle ==
    /\ tClock = 0
    /\ tPc = [r \in Runs |-> "idle"]
    /\ TEMP_DIR = [r \in Runs |-> <<>>]
    /\ tDirs = {}
    /\ tFiles = {}
    /\ tLost = {}

TempInit ==
    /\ tClock = 0
    /\ tPc = [r \in Runs |-> "off"]
    /\ TEMP_DIR = [r \in Runs |-> <<>>]
    /\ tDirs = {}
    /\ tFiles = {}
    /\ tLost = {}

\* the wall clock moves on
Tick ==
    /\ tClock < MaxClock
    /\ tClock' = tClock + 1
    /\ UNCHANGED <<tPc, TEMP_DIR, tDirs, tFiles, tLost>>
    /\ UNCHANGED notTemp

\* a run is started: TEMP_DIR = get_temp_dir() at import, with
\* os.makedirs(temp_dir, exist_ok=True), which accepts a directory that exists
get_temp_dir ==
    \E r \in Runs :
        /\ tPc[r] = "off"
        /\ tPc' = [tPc EXCEPT ![r] = "running"]
        /\ TEMP_DIR' = [TEMP_DIR EXCEPT ![r] = RunDir(tClock)]
        /\ tDirs' = tDirs \cup {RunDir(tClock)}
        /\ UNCHANGED <<tClock, tFiles, tLost>>
        /\ UNCHANGED notTemp

\* a run writes an archive below its OUTPUT_DIR, which is inside TEMP_DIR
\* (os.makedirs(output_dir, exist_ok=True) restores a removed tree)
WriteStaged ==
    \E r \in Runs :
        /\ tPc[r] = "running"
        /\ tDirs' = tDirs \cup {TEMP_DIR[r]}
        /\ tFiles' = tFiles \cup {[dir |-> TEMP_DIR[r], by |-> r]}
        /\ UNCHANGED <<tClock, tPc, TEMP_DIR, tLost>>
        /\ UNCHANGED notTemp

\* a run ends with delete_temp_directory: shutil.rmtree(TEMP_DIR,
\* ignore_errors=True) takes the whole tree, or the user keeps it
RunDeletesTemp ==
    \E r \in Runs, deletes \in BOOLEAN :
        /\ tPc[r] = "running"
        /\ tPc' = [tPc EXCEPT ![r] = "ended"]
        /\ IF deletes
           THEN /\ tDirs' = tDirs \ {TEMP_DIR[r]}
                /\ tFiles' = {f \in tFiles : f.dir # TEMP_DIR[r]}
                /\ tLost' = tLost \cup
                       {f.by : f \in {g \in tFiles : g.dir = TEMP_DIR[r] /\ g.by # r}}
           ELSE UNCHANGED <<tDirs, tFiles, tLost>>
        /\ UNCHANGED <<tClock, TEMP_DIR>>
        /\ UNCHANGED notTemp

TempNext ==
    \/ Tick
    \/ get_temp_dir
    \/ WriteStaged
    \/ RunDeletesTemp

(***************************************************************************)
(* The file name of a family (_sanitize_name)                              *)
(***************************************************************************)
MaxNameLen == 2

\* the characters of the names given to _sanitize_name
NameChars ==
    {"A", "b", "7", "_", "-", ".", " ", "/"} \cup NonAsciiWord \cup NonAsciiOther

RECURSIVE NamesUpTo(_)
NamesUpTo(n) ==
    IF n = 0 THEN {<<>>}
    ELSE LET shorter == NamesUpTo(n - 1)
         IN shorter \cup {Append(s, c) : s \in shorter, c \in NameChars}

SaniIdle ==
    /\ aName = <<>>
    /\ aSafe = <<>>
    /\ aPc = "idle"

SaniInit ==
    /\ aName \in NamesUpTo(MaxNameLen)
    /\ aSafe = <<>>
    /\ aPc = "start"

\* safe_name = _sanitize_name(family_name) in _prepare_zip_path
SanitizeName ==
    /\ aPc = "start"
    /\ aSafe' = _sanitize_name(aName)
    /\ aPc' = "done"
    /\ UNCHANGED aName
    /\ UNCHANGED notSani

SaniNext ==
    SanitizeName

(***************************************************************************)
(* The local repository: create_git_repo, then the files given to git      *)
(***************************************************************************)
MaxArchives == 2

\* OUTPUT_DIR = os.path.join(TEMP_DIR, "Font-Storage"), a path as the
\* sequence of its parts
OUTPUT_DIR == <<"TEMP_DIR", "Font-Storage">>
REPO_NAME == "Font-Storage"

\* os.path.dirname(path)
Dirname(path) == SubSeq(path, 1, Len(path) - 1)

\* repo_dir = os.path.join(os.path.dirname(output_dir), REPO_NAME)
RepoDir(output_dir) == Append(Dirname(output_dir), REPO_NAME)

Readme == <<"README.md">>
GitAttributes == <<".gitattributes">>
GitIgnore == <<".gitignore">>

\* the archives create_zips left in the output directory
Archives == { <<"archive", i>> : i \in 1..MaxArchives }

\* the files of directory dir; directories are told apart by their paths
FilesIn(disk, dir) == { f[2] : f \in { g \in disk : g[1] = dir } }

\* How _initialize_git_and_lfs can end:
\*   ok                 git init, git lfs version and git lfs install passed
\*   lfs_missing        git lfs version failed: returns False
\*   git_error          git --version or git init failed: returns False
\*   lfs_install_error  git lfs install failed: returns False
\*   git_missing        there is no git executable: FileNotFoundError, which
\*                      nothing in create_git_repo or main catches
GitInitOutcomes ==
    {"ok", "lfs_missing", "git_error", "lfs_install_error", "git_missing"}

\* if lfs_initialized: _configure_git_lfs(repo_dir)
AfterGitInit(outcome) ==
    CASE outcome = "git_missing" -> "crashed"
      [] outcome = "ok" -> "configure"
      [] OTHER -> "gitignore"

StageIdle ==
    /\ gPc = "idle"
    /\ gDisk = {}
    /\ gEvents = <<>>
    /\ lfs_initialized = FALSE
    /\ gIgnore = FALSE
    /\ gGiven = {}

\* create_zips has returned: its archives lie in OUTPUT_DIR
StageInit ==
    /\ gPc = "readme"
    /\ \E n \in 0..MaxArchives :
           gDisk = { <<OUTPUT_DIR, <<"archive", i>>>> : i \in 1..n }
    /\ gEvents = <<>>
    /\ lfs_initialized = FALSE
    /\ gIgnore \in BOOLEAN
    /\ gGiven = {}

\* os.makedirs(repo_dir, exist_ok=True) and _create_readme_file
CreateReadme ==
    /\ gPc = "readme"
    /\ gDisk' = gDisk \cup {<<RepoDir(OUTPUT_DIR), Readme>>}
    /\ gEvents' = Append(gEvents, <<"write", Readme>>)
    /\ gPc' = "init"
    /\ UNCHANGED <<lfs_initialized, gIgnore, gGiven>>
    /\ UNCHANGED notStage

\* lfs_initialized = _initialize_git_and_lfs(repo_dir)
InitializeGitAndLfs ==
    /\ gPc = "init"
    /\ \E outcome \in GitInitOutcomes :
           /\ lfs_initialized' = (outcome = "ok")
           /\ gPc' = AfterGitInit(outcome)
    /\ UNCHANGED <<gDisk, gEvents, gIgnore, gGiven>>
    /\ UNCHANGED notStage

\* _configure_git_lfs: .gitattributes is written, then added and committed;
\* a failure of git add or git commit is logged
ConfigureGitLfs ==
    /\ gPc = "configure"
    /\ gDisk' = gDisk \cup {<<RepoDir(OUTPUT_DIR), GitAttributes>>}
    /\ \E committed \in BOOLEAN :
           gEvents' = gEvents \o
               (IF committed
                THEN << <<"write", GitAttributes>>, <<"commit", GitAttributes>> >>
                ELSE << <<"write", GitAttributes>> >>)
    /\ gPc' = "gitignore"
    /\ UNCHANGED <<lfs_initialized, gIgnore, gGiven>>
    /\ UNCHANGED notStage

\* _copy_gitignore_file and _copy_files_to_repository: a file of output_dir
\* is copied unless a file of its name is in repo_dir already
CopyFilesToRepository ==
    /\ gPc = "gitignore"
    /\ LET repo_dir == RepoDir(OUTPUT_DIR)
           ignore == IF gIgnore THEN {<<repo_dir, GitIgnore>>} ELSE {}
           copied == FilesIn(gDisk, OUTPUT_DIR) \ FilesIn(gDisk, repo_dir)
       IN  /\ gDisk' = gDisk \cup ignore \cup { <<repo_dir, f>> : f \in copied }
           /\ gEvents' = IF copied = {} THEN gEvents
                         ELSE Append(gEvents, <<"copy", copied>>)
    /\ gPc' = "prepared"
    /\ UNCHANGED <<lfs_initialized, gIgnore, gGiven>>
    /\ UNCHANGED notStage

\* _process_file of push_to_github on one file of repo_dir, in the order of
\* os.walk: the file is given to git add, or to the API when git add fails
GiveFileToGit ==
    /\ gPc = "prepared"
    /\ \E f \in FilesIn(gDisk, RepoDir(OUTPUT_DIR)) \ gGiven :
           /\ gGiven' = gGiven \cup {f}
           /\ gEvents' = Append(gEvents, <<"add", f>>)
    /\ UNCHANGED <<gPc, gDisk, lfs_initialized, gIgnore>>
    /\ UNCHANGED notStage

StageNext ==
    \/ CreateReadme
    \/ InitializeGitAndLfs
    \/ ConfigureGitLfs
    \/ CopyFilesToRepository
    \/ GiveFileToGit

(***************************************************************************)
(* The exits of a run: main from scan_fonts to its last line               *)
(***************************************************************************)
Event(call, arg) == [call |-> call, arg |-> arg]

\* the variant that leaves the process without the call
AbortWithoutCleanup(ask_confirmation, answer) ==
    [trace |-> <<Event("sys.exit", <<"1">>)>>, removes |-> FALSE]

\* delete_temp_directory: shutil.rmtree(TEMP_DIR, ignore_errors=True) when not
\* asked, or when asked and input().lower() == 'y'
DeleteTempDirectory(ask_confirmation, answer) ==
    LET removes == ~ask_confirmation \/ Lower(answer) = <<"y">>
    IN  [trace |->
            <<Event("delete_temp_directory",
                    IF ask_confirmation THEN <<"ask">> ELSE <<"no_ask">>)>>
            \o (IF ask_confirmation THEN <<Event("input", answer)>> ELSE <<>>)
            \o (IF removes THEN <<Event("rmtree", <<"TEMP_DIR">>)>> ELSE <<>>),
         removes |-> removes]

\* delete_temp_directory(ask_confirmation=...) followed by sys.exit(1)
Abort(ask_confirmation, answer) ==
    LET d == DeleteTempDirectory(ask_confirmation, answer)
    IN  [trace |-> d.trace \o <<Event("sys.exit", <<"1">>)>>,
         removes |-> d.removes]

\* what is typed at a y/n question
Answers == {<<"y">>, <<"Y">>, <<"n">>, <<>>}

\* the aborts that call delete_temp_directory(ask_confirmation=False)
DirectAborts ==
    {"no_groups", "lfs_query_failed", "lfs_declined", "rate_query_failed",
     "data_declined", "identity_failed", "lookup_failed", "delete_failed",
     "create_failed", "ensure_unexpected", "push_unexpected"}

RunIdle ==
    /\ ePc = "idle"
    /\ eTrace = <<>>
    /\ eCause = "none"
    /\ eTemp = "absent"

\* main is entered; TEMP_DIR was made when the module was loaded
RunInit ==
    /\ ePc = "scan"
    /\ eTrace = <<>>
    /\ eCause = "none"
    /\ eTemp = "present"

\* the process leaves through delete_temp_directory and sys.exit(1), after
\* the events of the failing step
LeaveAfter(events, cause, ask_confirmation, answer) ==
    LET a == Abort(ask_confirmation, answer)
    IN  /\ ePc' = "exit1"
        /\ eCause' = cause
        /\ eTrace' = eTrace \o events \o a.trace
        /\ eTemp' = IF a.removes THEN "deleted" ELSE eTemp

Leave(cause, ask_confirmation, answer) ==
    LeaveAfter(<<>>, cause, ask_confirmation, answer)

\* the except block of main: delete_temp_directory() asks before it deletes
MainExcept(answer) == Leave("main_except", TRUE, answer)

Continue(pc) ==
    /\ ePc' = pc
    /\ UNCHANGED <<eTrace, eCause, eTemp>>

\* a check of main that asks when its condition holds: the query fails with
\* GithubException (the check returns False), raises anything else (main's
\* except block), or succeeds; _prompt_user_for_confirmation returns False
\* unless input().lower() is 'y'
Gate(query, condition, answer, typed_after, next_pc, failed, declined) ==
    CASE query = "raised" -> MainExcept(typed_after)
      [] query = "failed" -> Leave(failed, FALSE, NothingTyped)
      [] query = "ok" /\ ~condition -> Continue(next_pc)
      [] query = "ok" /\ condition /\ Confirms(answer) ->
             /\ ePc' = next_pc
             /\ eTrace' = eTrace \o <<Event("input", answer)>>
             /\ UNCHANGED <<eCause, eTemp>>
      [] OTHER ->
             LeaveAfter(<<Event("input", answer)>>, declined, FALSE, NothingTyped)

\* scan_fonts, the exit when no family was found, makedirs and create_zips
ScanAndBuild ==
    /\ ePc = "scan"
    /\ \E found \in BOOLEAN :
          IF found THEN Continue("confirm")
          ELSE Leave("no_groups", FALSE, NothingTyped)
    /\ UNCHANGED notRun

\* the question before the repository is made: sys.exit(0) unless y
ConfirmUpload ==
    /\ ePc = "confirm"
    /\ \E answer \in Answers :
          /\ ePc' = IF Lower(answer) = <<"y">> THEN "git" ELSE "exit0"
          /\ eTrace' = eTrace \o <<Event("input", answer)>>
                \o (IF Lower(answer) = <<"y">> THEN <<>>
                    ELSE <<Event("sys.exit", <<"0">>)>>)
    /\ UNCHANGED <<eCause, eTemp>>
    /\ UNCHANGED notRun

\* create_git_repo and get_github_token, both outside main's try block: a
\* missing git executable raises FileNotFoundError out of main
PrepareRepository ==
    /\ ePc = "git"
    /\ \E git_found \in BOOLEAN :
          /\ ePc' = IF git_found THEN "lfs" ELSE "crashed"
          /\ eCause' = IF git_found THEN eCause ELSE "uncaught"
    /\ UNCHANGED <<eTrace, eTemp>>
    /\ UNCHANGED notRun

\* check_github_lfs_storage and main's exit when it returns False
GateLfsStorage ==
    /\ ePc = "lfs"
    /\ \E query \in {"ok", "failed", "raised"}, plan \in PlanNames,
          answer \in Answers, typed_after \in Answers :
          Gate(query, Lower(plan) = <<"f","r","e","e">>, answer, typed_after,
               "data", "lfs_query_failed", "lfs_declined")
    /\ UNCHANGED notRun

\* check_github_data_limits and main's exit when it returns False
GateDataLimits ==
    /\ ePc = "data"
    /\ \E query \in {"ok", "failed", "raised"}, large \in BOOLEAN,
          answer \in Answers, typed_after \in Answers :
          Gate(query, large, answer, typed_after,
               "ensure", "rate_query_failed", "data_declined")
    /\ UNCHANGED notRun

\* create_github_repo: every failure inside it ends the process there
CreateGithubRepo ==
    /\ ePc = "ensure"
    /\ \E outcome \in {"ok", "lookup_failed", "delete_failed", "create_failed",
                       "ensure_unexpected"} :
          IF outcome = "ok" THEN Continue("push")
          ELSE Leave(outcome, FALSE, NothingTyped)
    /\ UNCHANGED notRun

\* push_to_github: GithubException and ValueError are logged and the function
\* returns; get_github_username exits on GithubException; any other
\* exception exits in the last except block
PushStep ==
    /\ ePc = "push"
    /\ \E outcome \in {"ok", "github_error", "identity_failed",
                       "push_unexpected"} :
          IF outcome \in {"ok", "github_error"} THEN Continue("report")
          ELSE Leave(outcome, FALSE, NothingTyped)
    /\ UNCHANGED notRun

\* the success lines of main: get_github_username for the printed address,
\* then delete_temp_directory()
ReportAndCleanUp ==
    /\ ePc = "report"
    /\ \E outcome \in {"ok", "identity_failed", "raised"},
          answer \in Answers :
          CASE outcome = "ok" ->
                   LET d == DeleteTempDirectory(TRUE, answer)
                   IN  /\ ePc' = "done"
                       /\ eTrace' = eTrace \o d.trace
                       /\ eTemp' = IF d.removes THEN "deleted" ELSE eTemp
                       /\ UNCHANGED eCause
            [] outcome = "raised" -> MainExcept(answer)
            [] OTHER -> Leave(outcome, FALSE, NothingTyped)
    /\ UNCHANGED notRun

RunNext ==
    \/ ScanAndBuild
    \/ ConfirmUpload
    \/ PrepareRepository
    \/ GateLfsStorage
    \/ GateDataLimits
    \/ CreateGithubRepo
    \/ PushStep
    \/ ReportAndCleanUp

(***************************************************************************)
(* The contents of an archive: one attempt of _create_zip_with_strategy    *)
(***************************************************************************)
MaxItems == 3

\* the font files of a family
ItemPaths ==
    << [dir |-> "user", base |-> "A.ttf"],
       [dir |-> "user", base |-> "B.otf"],
       [dir |-> "system", base |-> "C.ttf"],
       [dir |-> "system", base |-> "D.ttf"] >>

\* os.path.basename(font_path)
Basename(path) == path.base

\* _verify_font_paths: no path of the list is missing
VerifyFontPaths(paths, present) ==
    \A i \in 1..Len(paths) : paths[i] \in present

PackIdle ==
    /\ kPc = "idle"
    /\ kPaths = <<>>
    /\ kPresent = {}
    /\ kIdx = 0
    /\ kStaged = <<>>
    /\ kEntries = <<>>
    /\ kResult = "none"
    /\ kLog = {}

\* _create_zip_with_strategy is entered with the fonts of a family, all on disk
PackInit ==
    /\ kPc = "start"
    /\ \E n \in 1..MaxItems : kPaths = SubSeq(ItemPaths, 1, n)
    /\ kPresent = { kPaths[i] : i \in 1..Len(kPaths) }
    /\ kIdx = 0
    /\ kStaged = <<>>
    /\ kEntries = <<>>
    /\ kResult = "none"
    /\ kLog = {}

\* a font file is removed or becomes unreadable while the attempt runs
ItemVanishes ==
    /\ kPc \notin {"idle", "done"}
    /\ \E p \in kPresent : kPresent' = kPresent \ {p}
    /\ UNCHANGED <<kPc, kPaths, kIdx, kStaged, kEntries, kResult, kLog>>
    /\ UNCHANGED notPack

\* _create_zip_with_7zip up to the copy loop: False when a font is missing
SevenZipBegin ==
    /\ kPc = "start"
    /\ IF VerifyFontPaths(kPaths, kPresent)
       THEN /\ kPc' = "copy"
            /\ kLog' = kLog
       ELSE /\ kPc' = "zip_start"
            /\ kLog' = kLog \cup {"Missing font files"}
    /\ kIdx' = 1
    /\ UNCHANGED <<kPaths, kPresent, kStaged, kEntries, kResult>>
    /\ UNCHANGED notPack

\* one round of the copy loop: shutil.copy2 of a missing font raises
\* FileNotFoundError, the temporary directory is removed and False returned
SevenZipCopy ==
    /\ kPc = "copy"
    /\ kIdx <= Len(kPaths)
    /\ IF kPaths[kIdx] \in kPresent
       THEN /\ kStaged' = Append(kStaged, Basename(kPaths[kIdx]))
            /\ kIdx' = kIdx + 1
            /\ UNCHANGED <<kPc, kLog>>
       ELSE /\ kStaged' = <<>>
            /\ kIdx' = 1
            /\ kPc' = "zip_start"
            /\ kLog' = kLog \cup {"7zip command-line tool (7z) not found"}
    /\ UNCHANGED <<kPaths, kPresent, kEntries, kResult>>
    /\ UNCHANGED notPack

\* 7z a ... run in the temporary directory on the copies, then 7z t
SevenZipRun ==
    /\ kPc = "copy"
    /\ kIdx > Len(kPaths)
    /\ \E outcome \in {"ok", "tool_missing", "exit_nonzero", "test_failed"} :
          IF outcome = "ok"
          THEN /\ kEntries' = kStaged
               /\ kResult' = "7z"
               /\ kPc' = "done"
          ELSE /\ kPc' = "zip_start"
               /\ UNCHANGED <<kEntries, kResult>>
    /\ kStaged' = <<>>
    /\ kIdx' = 1
    /\ UNCHANGED <<kPaths, kPresent, kLog>>
    /\ UNCHANGED notPack

\* _create_zip_with_zipfile up to the write loop: False when a font is
\* missing or the archive cannot be opened for writing
ZipBegin ==
    /\ kPc = "zip_start"
    /\ \E open_ok \in BOOLEAN :
          IF VerifyFontPaths(kPaths, kPresent) /\ open_ok
          THEN /\ kPc' = "zip_write"
               /\ kResult' = kResult
          ELSE /\ kPc' = "done"
               /\ kResult' = "failed"
    /\ kLog' = IF VerifyFontPaths(kPaths, kPresent) THEN kLog
               ELSE kLog \cup {"Missing font files"}
    /\ kIdx' = 1
    /\ kEntries' = <<>>
    /\ UNCHANGED <<kPaths, kPresent, kStaged>>
    /\ UNCHANGED notPack

\* one round of the loop of _create_zip_file: an exception of zipf.write is
\* logged and the loop goes on with the next font
ZipWriteOne ==
    /\ kPc = "zip_write"
    /\ kIdx <= Len(kPaths)
    /\ IF kPaths[kIdx] \in kPresent
       THEN /\ kEntries' = Append(kEntries, Basename(kPaths[kIdx]))
            /\ kLog' = kLog
       ELSE /\ kEntries' = kEntries
            /\ kLog' = kLog \cup {"Error adding to zip"}
    /\ kIdx' = kIdx + 1
    /\ UNCHANGED <<kPc, kPaths, kPresent, kStaged, kResult>>
    /\ UNCHANGED notPack

\* _create_zip_file returns True after the loop; _verify_zip_file tests the
\* entries that were written
ZipVerify ==
    /\ kPc = "zip_write"
    /\ kIdx > Len(kPaths)
    /\ \E test_ok \in BOOLEAN : kResult' = IF test_ok THEN "zip" ELSE "failed"
    /\ kPc' = "done"
    /\ UNCHANGED <<kPaths, kPresent, kIdx, kStaged, kEntries, kLog>>
    /\ UNCHANGED notPack

PackNext ==
    \/ ItemVanishes
    \/ SevenZipBegin
    \/ SevenZipCopy
    \/ SevenZipRun
    \/ ZipBegin
    \/ ZipWriteOne
    \/ ZipVerify

(***************************************************************************)
(* The specifications                                                      *)
(***************************************************************************)
InitNorm ==
    /\ NormInit
    /\ ScanIdle
    /\ BuildIdle
    /\ OrchIdle
    /\ SyncIdle
    /\ MainIdle
    /\ TempIdle
    /\ SaniIdle
    /\ StageIdle
    /\ RunIdle
    /\ PackIdle
SpecNorm == InitNorm /\ [][NormNext]_vars

InitScan ==
    /\ ScanInit
    /\ NormIdle
    /\ BuildIdle
    /\ OrchIdle
    /\ SyncIdle
    /\ MainIdle
    /\ TempIdle
    /\ SaniIdle
    /\ StageIdle
    /\ RunIdle
    /\ PackIdle
SpecScan == InitScan /\ [][ScanNext]_vars

InitBuild ==
    /\ BuildInit
    /\ NormIdle
    /\ ScanIdle
    /\ OrchIdle
    /\ SyncIdle
    /\ MainIdle
    /\ TempIdle
    /\ SaniIdle
    /\ StageIdle
    /\ RunIdle
    /\ PackIdle
SpecBuild == InitBuild /\ [][BuildNext]_vars

InitBuildLive ==
    /\ BuildInitLive
    /\ NormIdle
    /\ ScanIdle
    /\ OrchIdle
    /\ SyncIdle
    /\ MainIdle
    /\ TempIdle
    /\ SaniIdle
    /\ StageIdle
    /\ RunIdle
    /\ PackIdle

\* create_zip_for_family is sequential code: each of its steps is taken once
\* the calls it makes have returned; the fonts may change for ever
SpecBuildLive ==
    /\ InitBuildLive
    /\ [][BuildNext]_vars
    /\ WF_vars(BuildStart)
    /\ WF_vars(BuildAttempt \/ BuildAttemptRaises)
    /\ WF_vars(BuildFinish)

InitOrch ==
    /\ OrchInit
    /\ NormIdle
    /\ ScanIdle
    /\ BuildIdle
    /\ SyncIdle
    /\ MainIdle
    /\ TempIdle
    /\ SaniIdle
    /\ StageIdle
    /\ RunIdle
    /\ PackIdle
SpecOrch == InitOrch /\ [][OrchNext]_vars

InitSync ==
    /\ SyncInit
    /\ NormIdle
    /\ ScanIdle
    /\ BuildIdle
    /\ OrchIdle
    /\ MainIdle
    /\ TempIdle
    /\ SaniIdle
    /\ StageIdle
    /\ RunIdle
    /\ PackIdle
SpecSync == InitSync /\ [][SyncNext]_vars

InitMain ==
    /\ MainInit
    /\ NormIdle
    /\ ScanIdle
    /\ BuildIdle
    /\ OrchIdle
    /\ SyncIdle
    /\ TempIdle
    /\ SaniIdle
    /\ StageIdle
    /\ RunIdle
    /\ PackIdle
SpecMain == InitMain /\ [][MainNext]_vars

InitTemp ==
    /\ TempInit
    /\ NormIdle
    /\ ScanIdle
    /\ BuildIdle
    /\ OrchIdle
    /\ SyncIdle
    /\ MainIdle
    /\ SaniIdle
    /\ StageIdle
    /\ RunIdle
    /\ PackIdle
SpecTemp == InitTemp /\ [][TempNext]_vars

InitSani ==
    /\ SaniInit
    /\ NormIdle
    /\ ScanIdle
    /\ BuildIdle
    /\ OrchIdle
    /\ SyncIdle
    /\ MainIdle
    /\ TempIdle
    /\ StageIdle
    /\ RunIdle
    /\ PackIdle
SpecSani == InitSani /\ [][SaniNext]_vars

InitStage ==
    /\ StageInit
    /\ NormIdle
    /\ ScanIdle
    /\ BuildIdle
    /\ OrchIdle
    /\ SyncIdle
    /\ MainIdle
    /\ TempIdle
    /\ SaniIdle
    /\ RunIdle
    /\ PackIdle
SpecStage == InitStage /\ [][StageNext]_vars

InitRun ==
    /\ RunInit
    /\ NormIdle
    /\ ScanIdle
    /\ BuildIdle
    /\ OrchIdle
    /\ SyncIdle
    /\ MainIdle
    /\ TempIdle
    /\ SaniIdle
    /\ StageIdle
    /\ PackIdle
SpecRun == InitRun /\ [][RunNext]_vars

InitPack ==
    /\ PackInit
    /\ NormIdle
    /\ ScanIdle
    /\ BuildIdle
    /\ OrchIdle
    /\ SyncIdle
    /\ MainIdle
    /\ TempIdle
    /\ SaniIdle
    /\ StageIdle
    /\ RunIdle
SpecPack == InitPack /\ [][PackNext]_vars

(***************************************************************************)
(* The properties                                                          *)
(***************************************************************************)
\* C3: normalising the result of a normalisation changes nothing
C3_Idempotent == nPc = "twice" => nOut2 = nOut

\* a key with the marker in the middle has been rewritten and normalised again
C3_Witness ==
    /\ nPc = "twice"
    /\ nOut # nKey
    /\ Contains(Lower(nKey), NerdFontLower)

\* the part of key before the first case-insensitive occurrence of the marker, trimmed
BaseBeforeMarker(key) ==
    Strip(SubSeq(key, 1, FindFirst(Lower(key), NerdFontLower) - 1))

\* C4: a key holding the marker (any letter case) not at its very end becomes
\* "<base> Nerd Font", base being the trimmed text before the marker; a key that
\* ends with the marker or does not hold it is returned unchanged
C4_NormalizationRule ==
    nPc # "key" =>
        IF Contains(Lower(nKey), NerdFontLower)
           /\ ~EndsWith(Lower(nKey), NerdFontLower)
        THEN nOut = BaseBeforeMarker(nKey) \o <<" ">> \o NerdFont
        ELSE nOut = nKey


\* the items the two globs yield
ItemsOf(listing) ==
    { listing[i] : i \in { j \in 1..Len(listing) :
                              \/ GlobMatches(listing[j], ExtTtf)
                              \/ GlobMatches(listing[j], ExtOtf) } }
UserItems == ItemsOf(userDir)
SystemItems == ItemsOf(sysDir)

\* a system item whose lower-cased file name is also that of a user item
Collides(s) == \E u \in UserItems : IdentityKey(u) = IdentityKey(s)

\* the items left after identity dedup
Survivors == UserItems \cup { s \in SystemItems : ~Collides(s) }

\* how many times item occurs in the groups of a mapping
Occurrences(families, item) ==
    Cardinality(UNION { { <<k, i>> : i \in { j \in 1..Len(families[k]) : families[k][j] = item } } :
                        k \in DOMAIN families })

\* C1 as claimed: the returned mapping has no empty group, no item is in two
\* groups (or twice in one), and every item that survived identity dedup and
\* whose key does not match the exclusion set is in exactly one group
C1_Partition ==
    sPc = "done" =>
        /\ \A k \in DOMAIN scanned : scanned[k] # <<>>
        /\ \A item \in UserItems \cup SystemItems : Occurrences(scanned, item) <= 1
        /\ \A item \in Survivors :
               ~IsDefault(item) => Occurrences(scanned, item) = 1

\* C1 amended: the same, for the surviving items whose key is not empty; an
\* item whose key is empty is in no group
C1_PartitionOfNamed ==
    sPc = "done" =>
        /\ \A k \in DOMAIN scanned : scanned[k] # <<>>
        /\ \A item \in UserItems \cup SystemItems : Occurrences(scanned, item) <= 1
        /\ \A item \in Survivors :
               IF FamilyOf(item) # <<>> /\ ~IsDefault(item)
               THEN Occurrences(scanned, item) = 1
               ELSE Occurrences(scanned, item) = 0

\* a scan has returned two groups, one of them of two items, and has dropped
\* an excluded item
C1_Witness ==
    /\ sPc = "done"
    /\ Cardinality(DOMAIN scanned) >= 2
    /\ \E k \in DOMAIN scanned : Len(scanned[k]) >= 2
    /\ \E item \in Survivors : IsDefault(item)

\* C2: a system item whose identity key (lower-cased file name) is that of a
\* user item is never added to a group, whatever the order of the two
\* listings, and the user item with that key is grouped as if the system item
\* were not there
C2_FirstSourceWins ==
    /\ \A s \in SystemItems :
           Collides(s) => /\ Occurrences(font_families, s) = 0
                          /\ Occurrences(scanned, s) = 0
    /\ sPc = "done" =>
           \A u \in UserItems :
               (FamilyOf(u) # <<>> /\ ~IsDefault(u))
                   => Occurrences(scanned, u) = 1

\* the scan has returned, a system item collided with a user item and was
\* passed over, and the user item is in a group
C2_Witness ==
    /\ sPc = "done"
    /\ \E s \in SystemItems : \E u \in UserItems :
           /\ IdentityKey(u) = IdentityKey(s)
           /\ Font(u).file # Font(s).file
           /\ Occurrences(scanned, u) = 1
           /\ sIdx > 1


\* the last attempt of the build
LastAttempt == bAttempts[Len(bAttempts)]

\* C5: attempt 1 aims at the canonical name, attempts 2 and 3 at the name with
\* _retry1 and _retry2 before the extension; a build whose first two attempts
\* fail and whose third succeeds returns the _retry2 path with a non-zero
\* size, and the archive of the third attempt is at that path (a build whose
\* size query itself failed is left aside)
C5_RetryRename ==
    /\ \A i \in 1..Len(bAttempts) :
           bAttempts[i].target =
               [stem |-> IF i = 1 THEN <<>> ELSE << <<"_retry", i - 1>> >>, ext |-> "7z"]
    /\ (/\ bPc = "done"
        /\ Len(bAttempts) = 3
        /\ ~bAttempts[1].ok
        /\ ~bAttempts[2].ok
        /\ bAttempts[3].ok
        /\ "Error getting size" \notin bLog)
       => /\ ~bRaised
          /\ bResult.path = [stem |-> << <<"_retry", 2>> >>, ext |-> "7z"]
          /\ bResult.size > 0
          /\ bResult.path \in DOMAIN bFs
          /\ bFs[bResult.path].by = 3

\* C6: no exception leaves create_zip_for_family, which always returns a pair,
\* and a build whose three attempts all failed returns size 0 and has logged
\* the failure
C6_Exhaustion ==
    /\ ~bRaised
    /\ bPc = "done" => bResult # NoResult
    /\ (/\ bPc = "done"
        /\ Len(bAttempts) = 3
        /\ \A i \in 1..3 : ~bAttempts[i].ok)
       => /\ bResult.size = 0
          /\ "Error creating archive" \in bLog

\* a build has ended after three failed attempts
C6_Witness ==
    /\ bPc = "done"
    /\ Len(bAttempts) = 3
    /\ \A i \in 1..3 : ~bAttempts[i].ok
    /\ bResult.size = 0
    /\ \E i \in 1..3 : bAttempts[i].wrote # <<>>

\* C7: when 7z is missing or exits non-zero in the last attempt and the zipfile
\* fallback writes an archive that passes its test, the build returns a
\* non-zero size and the path of that fallback archive
C7_FallbackRecovers ==
    (/\ bPc = "done"
     /\ bAttempts # <<>>
     /\ LastAttempt.seven \in {"tool_missing", "exit_nonzero"}
     /\ LastAttempt.via = "zip")
    => /\ bResult.size > 0
       /\ bResult.path \in DOMAIN bFs
       /\ bFs[bResult.path].fmt = "zip"
       /\ bFs[bResult.path].by = Len(bAttempts)


\* C8 (as stated): a staged file is routed to the large-file path exactly when
\* its size is at least the threshold of 70 MiB
C8_RoutingInclusive ==
    \A i \in 1..yIdx :
        yRoute[i] = "large" <=> file_list[i] >= 70 * 1024 * 1024

\* C8 (amended): a staged file is routed to the large-file path exactly when
\* its size exceeds the threshold of 70 MiB; a file of exactly the threshold,
\* like one a byte smaller, takes the small-file path
C8_RoutingExclusive ==
    \A i \in 1..yIdx :
        /\ yRoute[i] = "large" <=> file_list[i] > 70 * 1024 * 1024
        /\ file_list[i] = 70 * 1024 * 1024 => yRoute[i] = "small"
        /\ file_list[i] = 70 * 1024 * 1024 - 1 => yRoute[i] = "small"

C8_Witness ==
    \E i, j \in 1..yIdx :
        /\ file_list[i] = 70 * 1024 * 1024
        /\ yRoute[i] = "small"
        /\ file_list[j] = 70 * 1024 * 1024 + 1
        /\ yRoute[j] = "large"

\* the text typed at the prompt selects append: "2" or, in any case, "append",
\* with surrounding blanks ignored
SelectsAppend ==
    choice \in { <<"2">>, <<" ", "2", " ">>, <<"a","p","p","e","n","d">>,
                 <<"A","P","P","E","N","D">> }

\* C9: when the remote repository exists and the user selects append,
\* create_github_repo ends in AppendedTo without a delete or a create call on
\* the remote, and both precondition checks ran before it
C9_AppendScenario ==
    (rFound /\ SelectsAppend) =>
        /\ rRepo = "AppendedTo"
        /\ mPc \in {"push", "done", "exit1"}
        /\ \A k \in 1..Len(rCalls) : rCalls[k] \notin {"delete", "create"}
        /\ mChecks = <<"lfs", "data">>

C9_Witness ==
    /\ rFound
    /\ choice = <<"A","P","P","E","N","D">>
    /\ rRepo = "AppendedTo"
    /\ mPc = "done"

\* C10: once the orchestrator has seen the flag set after a completed task, no
\* task that was still queued is started, and create_zips is not kept from
\* returning by a build that is still queued or running
C10_CancellationStops ==
    oSeen =>
        /\ \A f \in oQueuedThen : oTask[f] = "queued"
        /\ oPc = "exiting" => ENABLED OrchReturn


\* the sizes of the results in a list, added up
RECURSIVE SumOfSizes(_)
SumOfSizes(list) ==
    IF list = <<>> THEN 0
    ELSE oFuture[list[1]].size + SumOfSizes(Tail(list))

\* C11: when create_zips returns because the flag was set, the list holds the
\* result of each build whose completion had been processed by then, once, and
\* none of a build that finished later, and the total is the sum of their sizes
C11_CancellationResult ==
    (oSeen /\ oPc \in {"exiting", "returned"}) =>
        /\ { archive_paths[i] : i \in 1..Len(archive_paths) }
               = { f \in oYielded : oFuture[f].kind = "pair" }
        /\ \A i, j \in 1..Len(archive_paths) :
               archive_paths[i] = archive_paths[j] => i = j
        /\ \A f \in oQueuedThen : \A i \in 1..Len(archive_paths) : archive_paths[i] # f
        /\ total_size = SumOfSizes(archive_paths)

\* create_zips has returned on the flag with two results, one of them of a
\* build that succeeded, while a build that was still queued then has finished
C11_Witness ==
    /\ oSeen
    /\ oPc = "returned"
    /\ Len(archive_paths) = 2
    /\ total_size > 0
    /\ oQueuedThen # {}


\* a step of the signal handler
HandlerStep == exit_flag' # exit_flag \/ (oPc # "forced" /\ oPc' = "forced")

C13_TaskIsolation ==
    (oPc = "returned" /\ ~oSeen) =>
        /\ { archive_paths[i] : i \in 1..Len(archive_paths) }
               = { f \in oFamilies : oFuture[f].kind = "pair" }
        /\ Len(archive_paths) = Cardinality({ f \in oFamilies : oFuture[f].kind = "pair" })
        /\ total_size = SumOfSizes(archive_paths)
        /\ \A f \in oFamilies :
               oFuture[f].kind = "exception" => <<"Error creating archive", f>> \in oLog

\* create_zips has returned without cancellation; the first task to finish
\* raised and a later one is in the list
C13_Witness ==
    /\ oPc = "returned"
    /\ ~exit_flag
    /\ \E f, g \in oFamilies :
          /\ oFuture[f].kind = "exception"
          /\ oFuture[g].kind = "pair"
          /\ oFuture[g].size > 0
          /\ archive_paths = <<g>>
          /\ Cardinality(oFamilies) = 2

\* C14: the list create_zips returns holds no path of a build that failed
\* with size 0
C14_ExhaustedExcluded ==
    oPc = "returned" =>
        \A i \in 1..Len(archive_paths) : oFuture[archive_paths[i]].size > 0

\* C15: every family gets one task, and when there is no cancellation and
\* every build succeeds create_zips returns one result for each family and
\* there are as many archives in the output directory as families
C15_OneBuildPerGroup ==
    /\ oPc \in {"collect", "returned"} => \A f \in oFamilies : oTask[f] # "unsubmitted"
    /\ (/\ oPc = "returned"
        /\ ~exit_flag
        /\ \A f \in oFamilies : oFuture[f].kind = "pair" /\ oFuture[f].size > 0)
       => /\ Len(archive_paths) = Cardinality(oFamilies)
          /\ { archive_paths[i] : i \in 1..Len(archive_paths) } = oFamilies
          /\ Cardinality({ p \in DOMAIN oDisk : oDisk[p] = "complete" })
                 = Cardinality(oFamilies)


\* C16: when the normal push and the forced push both failed, a content-API
\* write has been attempted for every file by the time push_to_github ends
C16_PushFallbackToApi ==
    (/\ yPc = "done"
     /\ Len(yPushes) = 2
     /\ ~yPushes[1].ok
     /\ ~yPushes[2].ok)
    => \A i \in 1..Len(file_list) :
           /\ i <= Len(yAttempts)
           /\ yAttempts[i].api # "none"

\* C17: the first push attempted is the normal one, a forced push comes only
\* second and only after a failed normal push, and there is at most one of each
C17_PushOrdering ==
    /\ Len(yPushes) <= 2
    /\ Len(yPushes) >= 1 => yPushes[1].kind = "normal"
    /\ Len(yPushes) = 2 => /\ yPushes[2].kind = "force"
                           /\ ~yPushes[1].ok
    /\ yPc = "force" => (Len(yPushes) = 1 /\ ~yPushes[1].ok)

\* the normal push failed and the forced push was made
C17_Witness ==
    /\ Len(yPushes) = 2
    /\ yPushes[2].ok
    /\ yPc = "done"

\* C18: for a file at or above the threshold git add runs first; the
\* content-API write is attempted exactly when git add failed, and the failure
\* and the fallback are logged before it
C18_StagingFallback ==
    \A i \in 1..yIdx :
        file_list[i] >= 70 * 1024 * 1024 =>
            /\ yAttempts[i].git_add => (yAttempts[i].api = "none" /\ i \in yStaged)
            /\ ~yAttempts[i].git_add =>
                   /\ yAttempts[i].api # "none"
                   /\ \E k \in 1..Len(yLog) :
                          /\ yLog[k][2] = i
                          /\ yLog[k][1] \in {"Falling back to direct API upload, may fail",
                                             "Falling back to direct API upload"}

\* one file over the threshold was staged, another fell back to the API
C18_Witness ==
    \E i, j \in 1..yIdx :
        /\ file_list[i] = 70 * 1024 * 1024 + 1
        /\ yAttempts[i].git_add
        /\ file_list[j] = 70 * 1024 * 1024 + 1
        /\ ~yAttempts[j].git_add
        /\ yAttempts[j].api = "ok"

\* C19: in a pass each file is processed once, in order; whatever failed for
\* the files before it, the next file can be processed, and the pass ends
\* only when every file has been processed
C19_PerFileIndependence ==
    /\ Len(yRoute) = yIdx
    /\ Len(yAttempts) = yIdx
    /\ yIdx <= Len(file_list)
    /\ (yPc = "files" /\ yIdx < Len(file_list)) => ENABLED _process_file
    /\ yPc \in {"git", "push", "force", "done", "exit1"} => yIdx = Len(file_list)

\* the first file failed in git add and in the API write, and the pass went
\* on to the second file and ended
C19_Witness ==
    /\ yPc = "git"
    /\ Len(file_list) = 2
    /\ ~yAttempts[1].git_add
    /\ yAttempts[1].api = "failed"
    /\ yAttempts[2].git_add


\* main stopped at one of the two precondition checks
AbortedAtGate == mPc = "exit1" /\ rCalls = <<>>

\* the answer typed to the last warning is an explicit no
ExplicitDecline ==
    /\ mGates[Len(mGates)].warned
    /\ Lower(mGates[Len(mGates)].answer) = <<"n">>

\* C20 (as stated): main stops at a precondition check only when the user
\* answered no to a warning that was displayed
C20_AbortOnlyOnDecline ==
    AbortedAtGate => ExplicitDecline

\* C20 (amended): main stops at a precondition check exactly when the check's
\* query of the GitHub API failed or a warning was displayed and the answer
\* was not y or Y; otherwise both checks run and main goes on to
\* create_github_repo
C20_AbortOnQueryFailureOrNoYes ==
    /\ AbortedAtGate =>
          \/ ~mGates[Len(mGates)].query_ok
          \/ /\ mGates[Len(mGates)].warned
             /\ mGates[Len(mGates)].answer \notin { <<"y">>, <<"Y">> }
    /\ \A k \in 1..Len(mGates) :
          (\/ ~mGates[k].query_ok
           \/ mGates[k].warned /\ mGates[k].answer \notin { <<"y">>, <<"Y">> })
          => (k = Len(mGates) /\ AbortedAtGate)
    /\ mPc \in {"ensure", "push", "done"} => Len(mGates) = 2

\* main stopped at the storage check because the plan query failed, with no
\* warning displayed
C20_Witness ==
    /\ AbortedAtGate
    /\ Len(mGates) = 1
    /\ ~mGates[1].query_ok
    /\ ~mGates[1].warned


\* the publish step transferred the files: a push succeeded, or the API write
\* of every file succeeded in the last pass
Transferred ==
    \/ \E k \in 1..Len(yPushes) : yPushes[k].ok
    \/ /\ yPc = "done"
       /\ Len(yAttempts) = Len(file_list)
       /\ \A i \in 1..Len(file_list) : yAttempts[i].api = "ok"

\* C21: the success summary is given only when the publish step transferred
\* the files, and a run whose publish step failed or stopped half way ends
\* with the statement of partial completion
C21_FinalReport ==
    /\ yReport = "success" => Transferred
    /\ (yPc \in {"done", "failed"} /\ yReport # "none" /\ ~Transferred)
           => yReport = "partial"

\* C22: two runs that have started hold distinct staging directories, and no
\* run's rmtree takes files another run wrote, also when both runs start
\* within one second of the clock
C22_StagingUnique ==
    /\ \A r1, r2 \in Runs :
           (r1 # r2 /\ tPc[r1] # "off" /\ tPc[r2] # "off")
               => TEMP_DIR[r1] # TEMP_DIR[r2]
    /\ tLost = {}

\* the characters of [A-Za-z0-9_.-]
AsciiSafe(c) ==
    \/ \E i \in 1..26 : c = UpperLetters[i] \/ c = LowerLetters[i]
    \/ c \in Digits
    \/ c \in {"_", ".", "-"}

\* C23: the base name has the length of the key, keeps every character of
\* [A-Za-z0-9_.-] and has an underscore in the place of every other
\* character, the letters and digits outside ASCII among them
C23_SafeName ==
    aPc = "done" =>
        /\ Len(aSafe) = Len(aName)
        /\ \A i \in 1..Len(aName) :
               aSafe[i] = IF AsciiSafe(aName[i])
                              THEN aName[i] ELSE "_"
        /\ \A i \in 1..Len(aSafe) : AsciiSafe(aSafe[i])

\* default_font.lower() in key.lower() for some member of the exclusion set
ContainsExcluded(key) ==
    LET name == Lower(key)
    IN  \E excluded \in DefaultFontsLower : Contains(name, excluded)

\* the keys the files of the two directories can be filed under, and those
\* of them that contain a member of the exclusion set, worked out once
FinalKeys ==
    { normalize_nerd_font_name(UserFamily[i]) : i \in 1..Len(UserFiles) }
        \cup { normalize_nerd_font_name(SystemFamily[i]) : i \in 1..Len(SystemFiles) }
ExcludedKeys == { key \in FinalKeys : ContainsExcluded(key) }

\* C24: no key of the mapping, as it is built and as it is returned, contains
\* a member of the exclusion set, whatever the case of its letters; the keys
\* are the normalised ones
C24_Exclusion ==
    /\ \A key \in DOMAIN font_families : key \in FinalKeys \ ExcludedKeys
    /\ \A key \in DOMAIN scanned : key \in FinalKeys \ ExcludedKeys

\* the scan has returned, a file of an excluded family was processed, and a
\* returned key is the normalised form of a different family name
C24_Witness ==
    /\ sPc = "done"
    /\ \E u \in UserItems : IsDefault(u)
    /\ \E u \in UserItems :
           /\ ~IsDefault(u)
           /\ normalize_nerd_font_name(FamilyOf(u)) # FamilyOf(u)
           /\ normalize_nerd_font_name(FamilyOf(u)) \in DOMAIN scanned

\* C25: a repository found absent gets one create and no delete; one found
\* present and to be replaced gets the delete, then the wait, then one create;
\* when the delete fails no create is issued and the run is aborted
C25_LifecycleOrdering ==
    /\ rLookup = "absent" => rCalls = <<"get_repo", "create">>
    /\ (rLookup = "found" /\ ~AppendChosen(choice)) =>
           IF rRepo = "Existing"
           THEN /\ rCalls = <<"get_repo", "delete">>
                /\ mPc = "exit1"
           ELSE rCalls = <<"get_repo", "delete", "sleep", "create">>

\* an existing repository was replaced: deleted, waited for, created again
C25_Witness ==
    /\ rLookup = "found"
    /\ ~AppendChosen(choice)
    /\ rRepo = "Replaced"
    /\ mPc = "push"

\* C26: a build returns a size above zero only for an archive that lies at the
\* returned path, was written by an attempt of this build and passed its
\* integrity test
C26_IntegrityGate ==
    (bPc = "done" /\ ~bRaised /\ bResult.size > 0) =>
        /\ bResult.path \in DOMAIN bFs
        /\ bFs[bResult.path].by > 0
        /\ bFs[bResult.path].valid

\* C27: an attempt begun while an input font is missing fails and writes no
\* archive by either strategy, and a build all of whose attempts found a font
\* missing returns size 0
C27_MissingInputGuard ==
    /\ \A k \in 1..Len(bAttempts) :
           bAttempts[k].missing =>
               /\ ~bAttempts[k].ok
               /\ bAttempts[k].wrote = <<>>
               /\ \A q \in DOMAIN bFs : bFs[q].by # k
    /\ (bPc = "done" /\ ~bRaised /\ bAttempts # <<>>
            /\ \A k \in 1..Len(bAttempts) : bAttempts[k].missing)
           => /\ bResult.size = 0
              /\ Len(bAttempts) = max_retries

\* a font was missing at every one of the three attempts and the build
\* returned size 0
C27_Witness ==
    /\ bPc = "done"
    /\ Len(bAttempts) = max_retries
    /\ \A k \in 1..Len(bAttempts) :
           bAttempts[k].missing /\ bAttempts[k].seven = "fonts_missing"
    /\ bResult.size = 0

\* C28: an attempt writes at its target path or, when the file there cannot be
\* removed, at the stamped path beside it, and the result of a build whose
\* archive went to the stamped path names that archive
C28_OccupiedTarget ==
    /\ \A k \in 1..Len(bAttempts) :
           bAttempts[k].wrote # <<>> =>
               \E e \in {"7z", "zip"} :
                   bAttempts[k].wrote[1] \in
                       { WithExt(bAttempts[k].target, e),
                         StampedPath(WithExt(bAttempts[k].target, e)) }
    /\ (bPc = "done" /\ ~bRaised /\ success /\ LastAttempt.via = "7z"
            /\ LastAttempt.wrote = <<StampedPath(LastAttempt.target)>>)
           => /\ bResult.path = StampedPath(LastAttempt.target)
              /\ bResult.size = ArchiveSize("7z")

\* C29: every attempt that another attempt follows was followed by the sleep
C29_SleepBetweenAttempts ==
    \A k \in 1..(Len(bAttempts) - 1) : bAttempts[k].slept

WrittenBefore(k, file) == \E i \in 1..(k - 1) : gEvents[i] = <<"write", file>>

\* C31: whenever an archive is given to the local repository, README.md and
\* .gitattributes were written there before, also when git lfs is missing or
\* could not be initialised
C31_StagingOrder ==
    \A k \in 1..Len(gEvents) :
        (gEvents[k][1] = "add" /\ gEvents[k][2] \in Archives) =>
            /\ WrittenBefore(k, Readme)
            /\ WrittenBefore(k, GitAttributes)

\* the commands of yGit named cmd
GitCalls(cmd) == { k \in 1..Len(yGit) : yGit[k].cmd = cmd }

\* the commit step ended without raising and the remote step was begun
CommitStepPassed == GitCalls("remote add") # {}

\* C32: with nothing to commit no commit is issued and the git steps go on
\* towards the push; when the commit of existing changes fails one
\* allow-empty commit is issued, and when that one passes the git steps go on
\* and the push is reached once the remote and the branch are set
C32_CommitStep ==
    yGit # <<>> =>
        /\ yGit[1].cmd = "status"
        /\ (yGit[1].ok /\ GitCalls("commit") = {}) =>
               \* nothing to commit
               /\ GitCalls("commit --allow-empty") = {}
               /\ CommitStepPassed
        /\ (\E k \in GitCalls("commit") : ~yGit[k].ok) =>
               /\ Cardinality(GitCalls("commit")) = 1
               /\ Cardinality(GitCalls("commit --allow-empty")) = 1
               /\ \A k \in GitCalls("commit --allow-empty") :
                      /\ k = 3
                      /\ yGit[k].ok => CommitStepPassed
                      /\ ~yGit[k].ok => ~CommitStepPassed
        /\ (\E k \in GitCalls("commit") : yGit[k].ok) =>
               GitCalls("commit --allow-empty") = {}
        /\ (CommitStepPassed /\ \A k \in 1..Len(yGit) : yGit[k].ok) =>
               yPc \in {"push", "force", "done", "files", "failed"}
        /\ (yPc = "push") => (CommitStepPassed /\ \A k \in 1..Len(yGit) :
                                  yGit[k].ok \/ yGit[k].cmd = "commit")

\* the commit failed, the allow-empty commit passed and the push was made
C32_Witness ==
    /\ \E k \in GitCalls("commit") : ~yGit[k].ok
    /\ \E k \in GitCalls("commit --allow-empty") : yGit[k].ok
    /\ yPushes # <<>>

\* a step of a worker thread: a task is taken up or ends
WorkerStep == oTask' # oTask /\ \E f \in oFamilies : oTask'[f] \in {"running", "finished"}

\* a step of the orchestrator thread that takes one completed task from
\* as_completed and records its result
CompletionStep ==
    /\ oPc = "collect"
    /\ oTask' = oTask
    /\ oFuture' = oFuture
    /\ \E f \in oFamilies \ oYielded :
           /\ oTask[f] = "finished"
           /\ oYielded' = oYielded \cup {f}
           /\ archive_paths' = Append(archive_paths, f)
           /\ total_size' = total_size + oFuture[f].size

\* C33: the result list and the total are changed only by a step of the
\* orchestrator thread that records one completed task, never by a step of a
\* worker; so the list holds no task twice and the total is always the sum of
\* the sizes of the results in the list
C33_SingleWriter ==
    /\ [](/\ total_size = SumOfSizes(archive_paths)
          /\ \A i, j \in 1..Len(archive_paths) :
                 archive_paths[i] = archive_paths[j] => i = j
          /\ \A i \in 1..Len(archive_paths) : archive_paths[i] \in oYielded)
    /\ [][/\ (archive_paths' # archive_paths \/ total_size' # total_size)
                 => CompletionStep
          /\ WorkerStep =>
                 (archive_paths' = archive_paths /\ total_size' = total_size)]_vars

\* two workers ran at once, both builds ended with a size before either was
\* recorded, and both results are in the list with their sizes added up
C33_Witness ==
    /\ Len(archive_paths) >= 2
    /\ total_size >= 2
    /\ oPc = "returned"
    /\ ~oSeen

\* the positions of the trace at which the process exits with status 1
FailureExits ==
    { k \in 1..Len(eTrace) : eTrace[k] = Event("sys.exit", <<"1">>) }

\* C34: whenever the process exits with status 1, delete_temp_directory was
\* called before the exit and nothing but its own steps lies between the
\* call and the exit; on the aborts made where the failure is found the
\* call does not ask, so the directory tree was removed
C34_AbortReleasesFirst ==
    /\ ePc = "exit1" => FailureExits = {Len(eTrace)}
    /\ \A k \in FailureExits :
          \E i \in 1..(k - 1) :
             /\ eTrace[i].call = "delete_temp_directory"
             /\ \A j \in (i + 1)..(k - 1) : eTrace[j].call \in {"input", "rmtree"}
             /\ eCause \in DirectAborts =>
                   /\ eTrace[i].arg = <<"no_ask">>
                   /\ eTrace[k - 1].call = "rmtree"
                   /\ eTemp = "deleted"

\* the push step met an unexpected error and the process has left
C34_Witness ==
    /\ ePc = "exit1"
    /\ eCause = "push_unexpected"
    /\ eTemp = "deleted"

\* C35: two submitted tasks of different family names never have the same
\* archive path, so no task finds, removes or replaces the file of another
C35_IndependentOnDisk ==
    \A f, g \in oFamilies :
        (/\ FamilyNames[oName[f]] # FamilyNames[oName[g]]
         /\ oTask[f] # "unsubmitted"
         /\ oTask[g] # "unsubmitted")
        => ArchivePath(f) # ArchivePath(g)

\* C36: a build that returns a size above zero returns the path at which its
\* last, successful attempt wrote its archive, and the size of that archive
C36_ResultPathFidelity ==
    (bPc = "done" /\ ~bRaised /\ bResult.size > 0) =>
        /\ bAttempts # <<>>
        /\ LastAttempt.ok
        /\ LastAttempt.wrote = <<bResult.path>>
        /\ bResult.size = ArchiveSize(LastAttempt.via)

\* C37: an archive reported as successful holds the base name of every font
\* of the family exactly once, in the order of the list
C37_ArchiveComplete ==
    (kPc = "done" /\ kResult \in {"7z", "zip"}) =>
        /\ Len(kEntries) = Len(kPaths)
        /\ \A i \in 1..Len(kPaths) : kEntries[i] = Basename(kPaths[i])

====
